---- MODULE Spec2Model ----
(***************************************************************************)
(* Particle-Visualizer: the pointer-interactive AudioVisualizer component  *)
(* (src/unnamed/part_000) as a state machine.  The state is the React      *)
(* state of the component (particleCount, lineWidth, particleColor,        *)
(* effects), its refs (particlesRef, mousePositionRef, animationFrameRef), *)
(* the frame requests and pointer listeners held by the browser, and the   *)
(* closure each pending frame request carries.                             *)
(*                                                                         *)
(* JavaScript numbers are modelled as exact real numbers: a rational is    *)
(* the pair <<n, d>> (d > 0, lowest terms), and the numbers that come from *)
(* one irrational square root are the triples <<a, b, s>> that stand for   *)
(* a + b * sqrt(s) with a, b, s rational.  The rounding of IEEE doubles is *)
(* not modelled.  A square root of a number that already holds an          *)
(* irrational root, and arithmetic on two different roots, have no value   *)
(* in the model: evaluating them is an error.                              *)
(***************************************************************************)
EXTENDS Integers, Sequences, FiniteSets, TLC

\* ------------------------------------------------------------- bounds
\* frames drawn on one particle list (between two runs of the loop effect)
MaxAge == 2
\* input events (changes of a setting, moves of the pointer) in one behaviour
MaxChanges == 1

\* ------------------------------------------------------------- numbers
RECURSIVE Gcd(_, _)
Gcd(a, b) == IF b = 0 THEN a ELSE Gcd(b, a % b)

IAbs(n) == IF n < 0 THEN -n ELSE n

\* the rational n/d in lowest terms with a positive denominator
Q(n, d) ==
    LET g == Gcd(IAbs(n), IAbs(d))
        s == IF d < 0 THEN -1 ELSE 1
    IN  << (s * n) \div g, (s * d) \div g >>

Num(n) == << n, 1 >>

Zero == Num(0)
One == Num(1)

QAdd(a, b) ==
    LET g == Gcd(a[2], b[2])
    IN  Q(a[1] * (b[2] \div g) + b[1] * (a[2] \div g), (a[2] \div g) * b[2])

QNeg(a) == << -a[1], a[2] >>

QSub(a, b) == QAdd(a, QNeg(b))

QMul(a, b) ==
    LET g1 == Gcd(IAbs(a[1]), b[2])
        g2 == Gcd(IAbs(b[1]), a[2])
    IN  Q((a[1] \div g1) * (b[1] \div g2), (a[2] \div g2) * (b[2] \div g1))

\* a / b for b # 0
QDiv(a, b) == QMul(a, Q(b[2], b[1]))

QLt(a, b) == a[1] * b[2] < b[1] * a[2]

QLe(a, b) == a[1] * b[2] <= b[1] * a[2]

QAbs(a) == << IAbs(a[1]), a[2] >>

QMax(a, b) == IF QLt(a, b) THEN b ELSE a

QMin(a, b) == IF QLt(b, a) THEN b ELSE a

\* floor of a rational
QFloor(a) == a[1] \div a[2]

\* JavaScript's a % m for a >= 0 and an integer m > 0
QMod(a, m) == QSub(a, Num(m * (QFloor(a) \div m)))

\* largest r in lo..hi with r * r <= n  (lo * lo <= n)
RECURSIVE ISqrtIter(_, _, _)
ISqrtIter(n, lo, hi) ==
    IF lo >= hi THEN lo
    ELSE LET mid == (lo + hi + 1) \div 2
         IN  IF mid * mid <= n THEN ISqrtIter(n, mid, hi)
                               ELSE ISqrtIter(n, lo, mid - 1)

ISqrt(n) == ISqrtIter(n, 0, IF n < 46340 THEN n ELSE 46340)

\* a square leaves one of few remainders on division by 16, 9, 5 and 7; the
\* root is searched only for the numbers that pass this test
IsSquare(n) ==
    /\ (n % 16) \in { 0, 1, 4, 9 }
    /\ (n % 9) \in { 0, 1, 4, 7 }
    /\ (n % 5) \in { 0, 1, 4 }
    /\ (n % 7) \in { 0, 1, 2, 4 }
    /\ LET r == ISqrt(n) IN r * r = n

\* a square root that is a rational
QExactRoot(a) == IsSquare(a[1]) /\ IsSquare(a[2])

\* ------------------------------------------------------------- numbers with a root
\* a + b * sqrt(s) for rationals a, b and a rational s > 0 that has no
\* rational root; with b = 0 it is the rational a
IsSurd(x) == Len(x) = 3

Surd(a, b, s) == IF b = Zero THEN a ELSE << a, b, s >>

RatPart(x) == IF IsSurd(x) THEN x[1] ELSE x

RootPart(x) == IF IsSurd(x) THEN x[2] ELSE Zero

\* the root two numbers share; numbers with different roots have none
Radicand(x, y) ==
    IF IsSurd(x) /\ IsSurd(y) THEN CHOOSE s \in { x[3] } : s = y[3]
    ELSE IF IsSurd(x) THEN x[3]
    ELSE IF IsSurd(y) THEN y[3]
    ELSE One

RAdd(x, y) ==
    IF Len(x) = 2 /\ Len(y) = 2 THEN QAdd(x, y)
    ELSE Surd(QAdd(RatPart(x), RatPart(y)), QAdd(RootPart(x), RootPart(y)), Radicand(x, y))

RNeg(x) == IF Len(x) = 2 THEN QNeg(x) ELSE << QNeg(x[1]), QNeg(x[2]), x[3] >>

RSub(x, y) == RAdd(x, RNeg(y))

RMul(x, y) ==
    IF Len(x) = 2 /\ Len(y) = 2 THEN QMul(x, y)
    ELSE LET s == Radicand(x, y)
         IN  Surd(QAdd(QMul(RatPart(x), RatPart(y)),
                       QMul(QMul(RootPart(x), RootPart(y)), s)),
                  QAdd(QMul(RatPart(x), RootPart(y)), QMul(RootPart(x), RatPart(y))),
                  s)

\* 1 / x for x # 0
RInv(x) ==
    IF Len(x) = 2 THEN Q(x[2], x[1])
    ELSE LET n == QSub(QMul(x[1], x[1]), QMul(QMul(x[2], x[2]), x[3]))
         IN  << QDiv(x[1], n), QNeg(QDiv(x[2], n)), x[3] >>

RDiv(x, y) == RMul(x, RInv(y))

\* -1, 0 or 1: where a and b * sqrt(s) differ in sign, the larger square decides
RSign(x) ==
    IF Len(x) = 2 THEN (IF x[1] < 0 THEN -1 ELSE IF x[1] = 0 THEN 0 ELSE 1)
    ELSE IF x[1][1] >= 0 /\ x[2][1] > 0 THEN 1
    ELSE IF x[1][1] <= 0 /\ x[2][1] < 0 THEN -1
    ELSE IF QLt(QMul(x[1], x[1]), QMul(QMul(x[2], x[2]), x[3]))
         THEN (IF x[2][1] > 0 THEN 1 ELSE -1)
         ELSE (IF x[1][1] > 0 THEN 1 ELSE -1)

RLt(x, y) == IF Len(x) = 2 /\ Len(y) = 2 THEN QLt(x, y) ELSE RSign(RSub(x, y)) < 0

RLe(x, y) == IF Len(x) = 2 /\ Len(y) = 2 THEN QLe(x, y) ELSE RSign(RSub(x, y)) <= 0

\* Math.abs
RAbs(x) == IF Len(x) = 2 THEN QAbs(x) ELSE IF RSign(x) < 0 THEN RNeg(x) ELSE x

\* Math.sqrt of a rational a >= 0
QSqrt(a) ==
    IF QExactRoot(a) THEN Q(ISqrt(a[1]), ISqrt(a[2]))
    ELSE << Zero, One, a >>

\* Math.atan2(y, x): the angle is carried as its unit vector <<cos, sin>>;
\* atan2(0, 0) is the angle 0
Atan2(y, x) ==
    IF x = Zero /\ y = Zero THEN << One, Zero >>
    ELSE LET h == QSqrt(RAdd(RMul(x, x), RMul(y, y)))
         IN  << RDiv(x, h), RDiv(y, h) >>

\* Math.cos, Math.sin
Cos(angle) == angle[1]

Sin(angle) == angle[2]

\* ------------------------------------------------------------- environment
\* window.innerWidth, window.innerHeight: the viewport, which the model keeps fixed
InnerWidth == 3840
InnerHeight == 2160

\* the canvas is fixed at the top left corner of the viewport:
\* canvas.getBoundingClientRect() is (0, 0)
RectLeft == 0
RectTop == 0

\* (clientX, clientY) of the pointer-move events the model delivers
PointerValues == { << 0, 0 >>, << 160, 120 >> }

\* Outcomes of the five Math.random() calls of one createParticle call, in the
\* order x, y, vx, vy, hue, each written as the pair << n, d >> of the number
\* n / d in lowest terms.  They place
\*   1: (79, 0) with velocity (-1/40, 0), on the top edge, 79 from the origin
\*   2: (79, 0) with velocity (1/2, 0)
\*   3: (112.6, 56.8) with velocity (3/400, 4/400), 79 from (160, 120)
\*   4: (3839.75, 1/4) with velocity (1/2, -1), in the top right corner
\*   5: (1/4, 2159.75) with velocity (-1, 1/2), in the bottom left corner
\*   6: (20, 150) with velocity (0, 0)
Samples == <<
    << << 79, 3840 >>, << 0, 1 >>, << 39, 80 >>, << 1, 2 >>, << 1, 36 >> >>,
    << << 79, 3840 >>, << 0, 1 >>, << 3, 4 >>, << 1, 2 >>, << 719, 720 >> >>,
    << << 563, 19200 >>, << 71, 2700 >>, << 403, 800 >>, << 101, 200 >>, << 1, 3 >> >>,
    << << 15359, 15360 >>, << 1, 8640 >>, << 3, 4 >>, << 0, 1 >>, << 359, 360 >> >>,
    << << 1, 15360 >>, << 8639, 8640 >>, << 0, 1 >>, << 3, 4 >>, << 0, 1 >> >>,
    << << 1, 192 >>, << 5, 72 >>, << 1, 2 >>, << 1, 2 >>, << 5, 6 >> >> >>

\* the batches of Math.random() outcomes the model draws from: a batch is
\* three rows of Samples, for the first three particles of a list, followed
\* by the rows of Filler for the others
Seeds == 1 .. (Len(Samples) \div 3)

\* the batches a re-run of the loop effect draws from after a change of the
\* settings
RestartSeeds == { 1 }

\* Outcomes of createParticle's Math.random() calls that place particles on
\* and around the pointer values:
\*   1: (0, 0) at rest            2: (160, 120) with velocity (-0.6, 0.8)
\*   3: (32, 24) at rest, 40 from the origin and 160 from (160, 120)
\*   4: (128, 96) at rest, 40 from (160, 120)
\*   5: (96, 72) with velocity (0.6, -0.8), exactly 80 from (160, 120)
\*   6: (160, 120) at rest
\*   7: (48, 0) at rest, 48 from the origin
\*   8: (160, 80) with velocity (0, -1), 40 from (160, 120)
\*   9: (200, 120) with velocity (1/2, 0), 40 from (160, 120)
PointerSamples == <<
    << << 0, 1 >>, << 0, 1 >>, << 1, 2 >>, << 1, 2 >>, << 0, 1 >> >>,
    << << 1, 24 >>, << 1, 18 >>, << 1, 5 >>, << 9, 10 >>, << 1, 2 >> >>,
    << << 1, 120 >>, << 1, 90 >>, << 1, 2 >>, << 1, 2 >>, << 1, 4 >> >>,
    << << 1, 30 >>, << 2, 45 >>, << 1, 2 >>, << 1, 2 >>, << 3, 4 >> >>,
    << << 1, 40 >>, << 1, 30 >>, << 4, 5 >>, << 1, 10 >>, << 1, 3 >> >>,
    << << 1, 24 >>, << 1, 18 >>, << 1, 2 >>, << 1, 2 >>, << 0, 1 >> >>,
    << << 1, 80 >>, << 0, 1 >>, << 1, 2 >>, << 1, 2 >>, << 1, 6 >> >>,
    << << 1, 24 >>, << 1, 27 >>, << 1, 2 >>, << 0, 1 >>, << 2, 3 >> >>,
    << << 5, 96 >>, << 1, 18 >>, << 3, 4 >>, << 1, 2 >>, << 1, 12 >> >> >>

\* the batches of PointerSamples
PointerSeeds == (Len(Samples) \div 3 + 1) .. (Len(Samples) \div 3 + Len(PointerSamples) \div 3)

\* Outcomes of the Math.random() calls of vx and vy that give the velocities
\* (0, 0), (-1, 0), (-1, -1) and (0, -1)
FillerVelocities == <<
    << << 1, 2 >>, << 1, 2 >> >>,
    << << 0, 1 >>, << 1, 2 >> >>,
    << << 0, 1 >>, << 0, 1 >> >>,
    << << 1, 2 >>, << 0, 1 >> >> >>

\* Outcomes of the Math.random() calls of the k-th particle after those of
\* Samples or PointerSamples in a list: the particles are placed in 10 rows
\* of 15, from (500, 170) to (3160, 2060), 190 apart in x, so that with
\* the default connection distance every particle is joined to its
\* neighbours in the row, and 210 apart in y; they are farther than that
\* from the particles of Samples and PointerSamples and outside the repulsion
\* radius of the pointer values
Filler(k) ==
    << Q(500 + 190 * ((k - 1) % 15), InnerWidth),
       Q(170 + 210 * ((k - 1) \div 15), InnerHeight),
       FillerVelocities[(k % Len(FillerVelocities)) + 1][1],
       FillerVelocities[(k % Len(FillerVelocities)) + 1][2],
       Q((7 * k) % 360, 360) >>

\* the Math.random() outcomes of the i-th createParticle call of batch seed
Sample(seed, i) ==
    IF i > 3 THEN Filler(i - 3)
    ELSE IF seed \in Seeds
         THEN Samples[(seed - 1) * 3 + i]
         ELSE PointerSamples[(seed - Len(Samples) \div 3 - 1) * 3 + i]

\* outcomes of the single Math.random() call of one rainbow re-seed
HueSamples == << << 1, 36 >>, << 719, 720 >> >>

HueSeeds == 1 .. Len(HueSamples)

HueSample(seed, i) == HueSamples[((seed + i) % Len(HueSamples)) + 1]

\* ------------------------------------------------------------- configuration
\* a hex colour "#rrggbb" is the sequence of its six hex digits
White == << 15, 15, 15, 15, 15, 15 >>
Red == << 15, 15, 0, 0, 0, 0 >>

ColorValues == { White, Red }

\* the colours the colour picker can deliver in the specification that
\* exercises the conversion: every channel one of 00, 33, 66, 99, cc, ff
Black == << 0, 0, 0, 0, 0, 0 >>
HexChannels == { << 0, 0 >>, << 3, 3 >>, << 6, 6 >>, << 9, 9 >>, << 12, 12 >>, << 15, 15 >> }
HexInputs == { r \o g \o b : r \in HexChannels, g \in HexChannels, b \in HexChannels }

\* useState(...) initial values
InitialParticleCount == 100
InitialParticleColor == White

InitialEffects ==
    [ colorMode |-> "solid",
      particleShape |-> "circle",
      lineStyle |-> "solid",
      trailLength |-> Q(1, 10),
      particleSize |-> Num(2),
      connectionDistance |-> Num(200),
      glowEffect |-> FALSE,
      glowIntensity |-> Q(1, 2),
      mouseRepulsion |-> Num(80),
      mouseForce |-> Num(3) ]

\* the values the controls of the settings panel offer in the model
CountValues == { 50, 100, 150 }
LineWidthValues == { Num(2), Num(5) }
ColorModeValues == { "solid", "rainbow" }
ShapeValues == { "circle", "triangle" }
LineStyleValues == { "solid", "dashed", "gradient" }
TrailLengthValues == { Q(1, 10), Zero }
ParticleSizeValues == { Num(2), Num(7) }
ConnectionDistanceValues == { Num(200), Num(50) }
GlowIntensityValues == { Q(1, 2), Num(5) }
MouseRepulsionValues == { Num(80), Zero }
MouseForceValues == { Num(3), Num(10) }

\* ------------------------------------------------------------- colour
\* parseInt(two hex digits, 16)
ParseInt16(digits) == 16 * digits[1] + digits[2]

\* HexToHsl without the "+ 6" of the red case: a hue between magenta and red
\* comes out negative
HexToHslNoWrap(color) ==
    LET r == Q(ParseInt16(SubSeq(color, 1, 2)), 255)
        g == Q(ParseInt16(SubSeq(color, 3, 4)), 255)
        b == Q(ParseInt16(SubSeq(color, 5, 6)), 255)
        max == QMax(QMax(r, g), b)
        min == QMin(QMin(r, g), b)
        l == QDiv(QAdd(max, min), Num(2))
        d == QSub(max, min)
        s == IF max = min THEN Zero
             ELSE IF QLt(Q(1, 2), l)
                  THEN QDiv(d, QSub(QSub(Num(2), max), min))
                  ELSE QDiv(d, QAdd(max, min))
        h6 == IF max = r
              THEN QDiv(QSub(g, b), d)
              ELSE IF max = g
                   THEN QAdd(QDiv(QSub(b, r), d), Num(2))
                   ELSE QAdd(QDiv(QSub(r, g), d), Num(4))
        h == IF max = min THEN Zero ELSE QMul(h6, Num(60))
    IN  [ hue |-> h,
          saturation |-> QMul(s, Num(100)),
          brightness |-> QMul(l, Num(100)) ]

\* the hex to HSL conversion of the particle update effect
HexToHsl(color) ==
    LET r == Q(ParseInt16(SubSeq(color, 1, 2)), 255)
        g == Q(ParseInt16(SubSeq(color, 3, 4)), 255)
        b == Q(ParseInt16(SubSeq(color, 5, 6)), 255)
        max == QMax(QMax(r, g), b)
        min == QMin(QMin(r, g), b)
        l == QDiv(QAdd(max, min), Num(2))
        d == QSub(max, min)
        s == IF max = min THEN Zero
             ELSE IF QLt(Q(1, 2), l)
                  THEN QDiv(d, QSub(QSub(Num(2), max), min))
                  ELSE QDiv(d, QAdd(max, min))
        h6 == IF max = r
              THEN QAdd(QDiv(QSub(g, b), d), IF QLt(g, b) THEN Num(6) ELSE Zero)
              ELSE IF max = g
                   THEN QAdd(QDiv(QSub(b, r), d), Num(2))
                   ELSE QAdd(QDiv(QSub(r, g), d), Num(4))
        h == IF max = min THEN Zero ELSE QMul(h6, Num(60))
    IN  [ hue |-> h,
          saturation |-> QMul(s, Num(100)),
          brightness |-> QMul(l, Num(100)) ]

\* ------------------------------------------------------------- particles
\* createParticle, given the outcomes of its Math.random() calls
createParticle(sample, eff) ==
    [ x |-> QMul(sample[1], Num(InnerWidth)),
      y |-> QMul(sample[2], Num(InnerHeight)),
      vx |-> QMul(QSub(sample[3], Q(1, 2)), Num(2)),
      vy |-> QMul(QSub(sample[4], Q(1, 2)), Num(2)),
      size |-> eff.particleSize,
      hue |-> QMul(sample[5], Num(360)),
      saturation |-> Num(100),
      brightness |-> Num(100) ]

\* Array.from({ length: count }, createParticle)
CreateParticles(count, seed, eff) ==
    [ i \in 1 .. count |-> createParticle(Sample(seed, i), eff) ]

\* the body of the particle update effect for one particle
UpdateParticle(p, eff, color, hueSample) ==
    IF eff.colorMode = "rainbow"
    THEN [ p EXCEPT !.size = eff.particleSize,
                    !.hue = QMul(hueSample, Num(360)),
                    !.saturation = Num(100),
                    !.brightness = Num(50) ]
    ELSE IF eff.colorMode = "solid"
         THEN LET hsl == HexToHsl(color)
              IN  [ p EXCEPT !.size = eff.particleSize,
                             !.hue = hsl.hue,
                             !.saturation = hsl.saturation,
                             !.brightness = hsl.brightness ]
         ELSE [ p EXCEPT !.size = eff.particleSize ]

\* particlesRef.current.forEach(...) of the particle update effect
UpdateParticles(ps, eff, color, hueSeed) ==
    [ i \in 1 .. Len(ps) |-> UpdateParticle(ps[i], eff, color, HueSample(hueSeed, i)) ]

\* the forEach of the colour mode select: only the colour is rewritten
RecolorParticles(ps, color) ==
    LET hsl == HexToHsl(color)
    IN  [ i \in 1 .. Len(ps) |->
            [ ps[i] EXCEPT !.hue = hsl.hue,
                           !.saturation = hsl.saturation,
                           !.brightness = hsl.brightness ] ]

\* ------------------------------------------------------------- simulation
baseSpeed == 1

\* Math.sqrt(dx * dx + dy * dy)
Distance(dx, dy) == QSqrt(RAdd(RMul(dx, dx), RMul(dy, dy)))

\* Repel with dx and dy taken from the particle to the pointer
RepelTowards(p, mouse, eff) ==
    LET dx == RSub(mouse.x, p.x)
        dy == RSub(mouse.y, p.y)
        distance == Distance(dx, dy)
    IN  IF RLt(distance, eff.mouseRepulsion)
        THEN LET force == RDiv(RSub(eff.mouseRepulsion, distance), eff.mouseRepulsion)
                 angle == Atan2(dy, dx)
             IN  [ p EXCEPT !.vx = RAdd(p.vx, RMul(RMul(Cos(angle), force), eff.mouseForce)),
                            !.vy = RAdd(p.vy, RMul(RMul(Sin(angle), force), eff.mouseForce)) ]
        ELSE p

\* Repel that takes the radius twice as large: between mouseRepulsion and
\* 2 * mouseRepulsion the force is negative
RepelTwiceRadius(p, mouse, eff) ==
    LET dx == RSub(p.x, mouse.x)
        dy == RSub(p.y, mouse.y)
        distance == Distance(dx, dy)
    IN  IF RLt(distance, RMul(Num(2), eff.mouseRepulsion))
        THEN LET force == RDiv(RSub(eff.mouseRepulsion, distance), eff.mouseRepulsion)
                 angle == Atan2(dy, dx)
             IN  [ p EXCEPT !.vx = RAdd(p.vx, RMul(RMul(Cos(angle), force), eff.mouseForce)),
                            !.vy = RAdd(p.vy, RMul(RMul(Sin(angle), force), eff.mouseForce)) ]
        ELSE p

\* draw: apply mouse repulsion force
Repel(p, mouse, eff) ==
    LET dx == RSub(p.x, mouse.x)
        dy == RSub(p.y, mouse.y)
        distance == Distance(dx, dy)
    IN  IF RLt(distance, eff.mouseRepulsion)
        THEN LET force == RDiv(RSub(eff.mouseRepulsion, distance), eff.mouseRepulsion)
                 angle == Atan2(dy, dx)
             IN  [ p EXCEPT !.vx = RAdd(p.vx, RMul(RMul(Cos(angle), force), eff.mouseForce)),
                            !.vy = RAdd(p.vy, RMul(RMul(Sin(angle), force), eff.mouseForce)) ]
        ELSE p

\* SpeedFloor that leaves a particle at rest alone
SpeedFloorSkipsRest(p) ==
    LET angle == Atan2(p.vy, p.vx)
        speed == Distance(p.vx, p.vy)
    IN  IF RLt(speed, Num(baseSpeed)) /\ speed # Zero
        THEN [ p EXCEPT !.vx = RMul(Cos(angle), Num(baseSpeed)),
                        !.vy = RMul(Sin(angle), Num(baseSpeed)) ]
        ELSE p

\* draw: maintain constant base movement
SpeedFloor(p) ==
    LET angle == Atan2(p.vy, p.vx)
        speed == Distance(p.vx, p.vy)
    IN  IF RLt(speed, Num(baseSpeed))
        THEN [ p EXCEPT !.vx = RMul(Cos(angle), Num(baseSpeed)),
                        !.vy = RMul(Sin(angle), Num(baseSpeed)) ]
        ELSE p

\* draw: update position
Integrate(p) == [ p EXCEPT !.x = RAdd(p.x, p.vx), !.y = RAdd(p.y, p.vy) ]

\* BounceX that reflects the velocity at the left wall without clamping x
BounceXNoClamp(p, width) ==
    IF RLt(p.x, Zero) THEN [ p EXCEPT !.vx = RAbs(p.vx) ]
    ELSE IF RLt(width, p.x) THEN [ p EXCEPT !.x = width, !.vx = RNeg(RAbs(p.vx)) ]
    ELSE p

\* draw: bounce off the left and right walls
BounceX(p, width) ==
    IF RLt(p.x, Zero) THEN [ p EXCEPT !.x = Zero, !.vx = RAbs(p.vx) ]
    ELSE IF RLt(width, p.x) THEN [ p EXCEPT !.x = width, !.vx = RNeg(RAbs(p.vx)) ]
    ELSE p

\* draw: bounce off the top and bottom walls
BounceY(p, height) ==
    IF RLt(p.y, Zero) THEN [ p EXCEPT !.y = Zero, !.vy = RAbs(p.vy) ]
    ELSE IF RLt(height, p.y) THEN [ p EXCEPT !.y = height, !.vy = RNeg(RAbs(p.vy)) ]
    ELSE p

\* the simulation step with the four wall tests in one else-if chain: a
\* particle that has left through a side wall is not tested against top and bottom
AdvanceOneClamp(p, mouse, eff, cv) ==
    LET t == Integrate(SpeedFloor(Repel(p, mouse, eff)))
    IN  IF RLt(t.x, Zero) \/ RLt(cv.width, t.x) THEN BounceX(t, cv.width)
        ELSE BounceY(t, cv.height)

\* draw: the simulation step of one particle
Advance(p, mouse, eff, cv) ==
    BounceY(BounceX(Integrate(SpeedFloor(Repel(p, mouse, eff))), cv.width), cv.height)

\* ------------------------------------------------------------- rendering
\* getParticleColor: the particle after the call and the colour returned, as
\* the triple of hsl(h, s%, l%)
getParticleColor(p, eff) ==
    IF eff.colorMode = "rainbow"
    THEN LET h == QMod(QAdd(p.hue, One), 360)
         IN  [ p |-> [ p EXCEPT !.hue = h ], color |-> << h, Num(100), Num(50) >> ]
    ELSE [ p |-> p, color |-> << p.hue, p.saturation, p.brightness >> ]

\* drawParticle without the reset of the shadow after the fill
drawParticleNoReset(st, i, env) ==
    LET r == getParticleColor(st.ps[i], env.effects)
        glow == env.effects.glowEffect
        blur == IF glow THEN QMul(env.effects.glowIntensity, Num(20)) ELSE st.shadowBlur
    IN  [ st EXCEPT !.ps[i] = r.p,
                    !.paints = Append(@, [ index |-> i,
                                           fillStyle |-> r.color,
                                           shape |-> env.effects.particleShape,
                                           x |-> r.p.x,
                                           y |-> r.p.y,
                                           size |-> r.p.size,
                                           shadowBlur |-> blur ]),
                    !.shadowBlur = blur ]

\* The state of one run of draw: the particle list, the context's shadowBlur,
\* and the shapes filled and lines stroked so far.
\* drawParticle(ctx, particles[i])
drawParticle(st, i, env) ==
    LET r == getParticleColor(st.ps[i], env.effects)
        glow == env.effects.glowEffect
        blur == IF glow THEN QMul(env.effects.glowIntensity, Num(20)) ELSE st.shadowBlur
    IN  [ st EXCEPT !.ps[i] = r.p,
                    !.paints = Append(@, [ index |-> i,
                                           fillStyle |-> r.color,
                                           shape |-> env.effects.particleShape,
                                           x |-> r.p.x,
                                           y |-> r.p.y,
                                           size |-> r.p.size,
                                           shadowBlur |-> blur ]),
                    !.shadowBlur = IF glow THEN Zero ELSE st.shadowBlur ]

\* drawLine(ctx, particles[i], particles[j], opacity)
drawLine(st, i, j, opacity, env) ==
    LET gradient == env.effects.lineStyle = "gradient"
        r1 == getParticleColor(st.ps[i], env.effects)
        ps1 == IF gradient THEN [ st.ps EXCEPT ![i] = r1.p ] ELSE st.ps
        r2 == getParticleColor(ps1[j], env.effects)
        ps2 == IF gradient THEN [ ps1 EXCEPT ![j] = r2.p ] ELSE ps1
    IN  [ st EXCEPT !.ps = ps2,
                    !.lines = Append(@, [ from |-> i,
                                          to |-> j,
                                          lineDash |-> IF env.effects.lineStyle = "dashed"
                                                       THEN << 5, 5 >> ELSE << >>,
                                          lineWidth |-> env.lineWidth,
                                          opacity |-> opacity,
                                          strokeStyle |-> IF gradient
                                                          THEN << "gradient", r1.color, r2.color >>
                                                          ELSE << "rgba", 255, 255, 255, opacity >>,
                                          x1 |-> ps2[i].x,
                                          y1 |-> ps2[i].y,
                                          x2 |-> ps2[j].x,
                                          y2 |-> ps2[j].y,
                                          shadowBlur |-> st.shadowBlur ]) ]

\* the opacity without the factor 0.2
OpacityNoScale(distance, eff) ==
    RSub(One, RDiv(distance, eff.connectionDistance))

\* 0.2 * (1 - (distance / effects.connectionDistance))
Opacity(distance, eff) ==
    RMul(Q(1, 5), RSub(One, RDiv(distance, eff.connectionDistance)))

\* the inner loop started one particle early, for (let j = i; ...): particle i
\* is tested against itself
ConnectLoopWithSelf(st, i, j, env) ==
    LET RECURSIVE Range(_, _, _)
        Range(s, lo, hi) ==
            IF lo > hi \/ lo > Len(s.ps) THEN s
            ELSE IF lo < hi
                 THEN Range(Range(s, lo, (lo + hi) \div 2), (lo + hi) \div 2 + 1, hi)
                 ELSE LET distance == Distance(RSub(s.ps[i].x, s.ps[lo].x),
                                               RSub(s.ps[i].y, s.ps[lo].y))
                      IN  IF RLt(distance, env.effects.connectionDistance)
                          THEN drawLine(s, i, lo, Opacity(distance, env.effects), env)
                          ELSE s
    IN  Range(st, j - 1, Len(st.ps))

\* draw: the inner loop, for (let j = i + 1; j < particles.length; j++), from
\* particle j on.  Range(s, lo, hi) runs the iterations lo .. hi in order, as
\* those of the first half of lo .. hi followed by those of the second half;
\* one iteration is the distance test of particle i, already advanced,
\* against particle lo, and the line when it passes.
ConnectLoop(st, i, j, env) ==
    LET RECURSIVE Range(_, _, _)
        Range(s, lo, hi) ==
            IF lo > hi \/ lo > Len(s.ps) THEN s
            ELSE IF lo < hi
                 THEN Range(Range(s, lo, (lo + hi) \div 2), (lo + hi) \div 2 + 1, hi)
                 ELSE LET distance == Distance(RSub(s.ps[i].x, s.ps[lo].x),
                                               RSub(s.ps[i].y, s.ps[lo].y))
                      IN  IF RLt(distance, env.effects.connectionDistance)
                          THEN drawLine(s, i, lo, Opacity(distance, env.effects), env)
                          ELSE s
    IN  Range(st, j, Len(st.ps))

\* draw: the outer loop, for (let i = 0; i < particles.length; i++), from
\* particle i on.  Range(s, lo, hi) runs the iterations lo .. hi in order, as
\* in ConnectLoop; one iteration is the simulation step of particle lo, its
\* fill and its lines to the particles after it.
DrawLoop(st, i, mouse, env, cv) ==
    LET RECURSIVE Range(_, _, _)
        Range(s, lo, hi) ==
            IF lo > hi \/ lo > Len(s.ps) THEN s
            ELSE IF lo < hi
                 THEN Range(Range(s, lo, (lo + hi) \div 2), (lo + hi) \div 2 + 1, hi)
                 ELSE ConnectLoop(
                          drawParticle([ s EXCEPT !.ps[lo] =
                                             Advance(s.ps[lo], mouse, env.effects, cv) ],
                                       lo, env),
                          lo, lo + 1, env)
    IN  Range(st, i, Len(st.ps))

\* requestAnimationFrame's handle: the browser numbers the requests of a
\* document 1, 2, 3, ...; every request of the component is stored in
\* animationFrameRef, so the next handle is one more than the one stored last
NewFrameId(last) == last + 1

\* ------------------------------------------------------------- state
VARIABLES
    phase,              \* "constructed" (rendered, effects not yet run), "mounted", "unmounted"
    particleCount,      \* useState(100)
    lineWidth,          \* useState(2)
    particleColor,      \* useState('#ffffff')
    effects,            \* useState({...})
    canvas,             \* canvas.width, canvas.height
    shadowBlur,         \* the 2d context's shadowBlur
    particles,          \* particlesRef.current
    mousePosition,      \* mousePositionRef.current
    mouseEvent,         \* (clientX, clientY) of the most recent mousemove event
    animationFrameRef,  \* animationFrameRef.current
    pending,            \* frame requests the browser holds: handle, the draw closure's render
    listeners,          \* mousemove listeners attached to the canvas, by the effect run that added them
    loopRuns,           \* runs of the loop effect so far
    frame,              \* what the last run of draw painted
    age,                \* frames drawn on the current particle list
    changes,            \* input events handled so far
    lastEvent           \* the last event handled

vars == << phase, particleCount, lineWidth, particleColor, effects, canvas, shadowBlur,
           particles, mousePosition, mouseEvent, animationFrameRef, pending, listeners,
           loopRuns, frame, age, changes, lastEvent >>

\* no mousemove event has been delivered yet
NoEvent == << >>

NoFrame ==
    [ drawn |-> FALSE, env |-> << >>, fade |-> << >>, residue |-> << >>,
      paints |-> << >>, lines |-> << >> ]

\* What the canvas shows after the frame fr: the shapes and lines of fr at full
\* strength over what the trail fade left of the earlier frames (the residue),
\* each earlier frame with the share of its strength that is left.
Content(fr) ==
    IF fr.drawn
    THEN Append(fr.residue, [ paints |-> fr.paints, lines |-> fr.lines, visibility |-> One ])
    ELSE fr.residue

\* a fade whose alpha is the trail length itself
TrailFadeInverted(eff) == eff.trailLength

\* draw: the alpha of the black fill, rgba(0, 0, 0, 1 - effects.trailLength)
TrailFade(eff) == QSub(One, eff.trailLength)

\* draw: ctx.fillRect(0, 0, canvas.width, canvas.height) in black of the given
\* alpha over the whole canvas: what is left of the content
FadeContent(content, alpha) ==
    LET faded == [ k \in 1 .. Len(content) |->
                     [ content[k] EXCEPT !.visibility = QMul(@, QSub(One, alpha)) ] ]
        Visible(l) == QLt(Zero, l.visibility)
    IN  SelectSeq(faded, Visible)

Init ==
    /\ phase = "constructed"
    /\ particleCount = InitialParticleCount
    /\ lineWidth = Num(2)
    /\ particleColor = InitialParticleColor
    /\ effects = InitialEffects
    /\ canvas = [ width |-> Num(InnerWidth), height |-> Num(InnerHeight) ]
    /\ shadowBlur = Zero
    /\ particles = << >>
    /\ mousePosition = [ x |-> Zero, y |-> Zero ]
    /\ mouseEvent = NoEvent
    /\ animationFrameRef = 0
    /\ pending = { }
    /\ listeners = { }
    /\ loopRuns = 0
    /\ frame = NoFrame
    /\ age = 0
    /\ changes = 0
    /\ lastEvent = "construct"

\* ------------------------------------------------------------- effects
\* a cleanup that does not call cancelAnimationFrame
CancelFrameNone(pend, ref) == pend

\* the cleanup of the loop effect: the frame requests left
CancelFrame(pend, ref) ==
    IF ref # 0 THEN { f \in pend : f.id # ref } ELSE pend

\* a cleanup that does not call removeEventListener
RemoveListenerNone(ls, run) == ls

\* the cleanup of the loop effect: the listeners left
RemoveListener(ls, run) == ls \ { run }

\* the loop effect's dependency list without particleCount
LoopDepsNoCount(count, lw, eff) ==
    << eff.connectionDistance, eff.lineStyle, eff.trailLength, eff.particleShape,
       eff.glowEffect, eff.glowIntensity, lw, eff.mouseRepulsion, eff.mouseForce >>

\* the dependency list of the loop effect
LoopDeps(count, lw, eff) ==
    << count, eff.connectionDistance, eff.lineStyle, eff.trailLength, eff.particleShape,
       eff.glowEffect, eff.glowIntensity, lw, eff.mouseRepulsion, eff.mouseForce >>

\* the particle update effect's dependency list without particleColor
UpdateDepsNoColor(eff, color) ==
    << eff.colorMode, eff.particleSize, eff.lineStyle >>

\* the dependency list of the particle update effect
UpdateDeps(eff, color) ==
    << eff.colorMode, eff.particleSize, eff.lineStyle, color >>

\* The loop effect ("Initialize canvas and start animation") of the render with
\* (count, lw, eff), after its cleanup when it has run before; then the
\* particle update effect when runUpdate.  ps0 is particlesRef.current before.
\* Assigning canvas.width clears the canvas and resets its context.
RunEffects(count, lw, color, eff, ps0, runLoop, runUpdate, seed, hueSeed) ==
    LET pend1 == IF runLoop /\ loopRuns > 0 THEN CancelFrame(pending, animationFrameRef)
                 ELSE pending
        ls1 == IF runLoop /\ loopRuns > 0 THEN RemoveListener(listeners, loopRuns)
               ELSE listeners
        run == loopRuns + 1
        id == NewFrameId(animationFrameRef)
        ps1 == IF runLoop THEN CreateParticles(count, seed, eff) ELSE ps0
    IN  /\ particles' = IF runUpdate THEN UpdateParticles(ps1, eff, color, hueSeed) ELSE ps1
        /\ IF runLoop
           THEN /\ canvas' = [ width |-> Num(InnerWidth), height |-> Num(InnerHeight) ]
                /\ shadowBlur' = Zero
                /\ listeners' = ls1 \cup { run }
                /\ pending' = pend1 \cup { [ id |-> id, run |-> run,
                                              env |-> [ effects |-> eff, lineWidth |-> lw ] ] }
                /\ animationFrameRef' = id
                /\ loopRuns' = run
                /\ frame' = NoFrame
                /\ age' = 0
           ELSE UNCHANGED << canvas, shadowBlur, listeners, pending, animationFrameRef,
                             loopRuns, frame, age >>

\* the first commit: both effects run
Mount ==
    /\ phase = "constructed"
    /\ \E seed \in Seeds, hueSeed \in HueSeeds :
          RunEffects(particleCount, lineWidth, particleColor, effects, particles,
                     TRUE, TRUE, seed, hueSeed)
    /\ phase' = "mounted"
    /\ lastEvent' = "mount"
    /\ UNCHANGED << particleCount, lineWidth, particleColor, effects, mousePosition, mouseEvent,
                    changes >>

\* A state update of an event handler, the render it causes and the effects
\* whose dependencies changed.  ps0 is particlesRef.current as the handler left it.
CommitWithin(limit, count, lw, color, eff, ps0, event) ==
    /\ phase = "mounted"
    /\ changes < limit
    /\ particleCount' = count
    /\ lineWidth' = lw
    /\ particleColor' = color
    /\ effects' = eff
    /\ LET runLoop == LoopDeps(count, lw, eff) # LoopDeps(particleCount, lineWidth, effects)
           runUpdate == UpdateDeps(eff, color) # UpdateDeps(effects, particleColor)
       IN  \E seed \in IF runLoop THEN RestartSeeds ELSE { 1 },
              hueSeed \in IF runUpdate /\ eff.colorMode = "rainbow" THEN HueSeeds ELSE { 1 } :
               RunEffects(count, lw, color, eff, ps0, runLoop, runUpdate, seed, hueSeed)
    /\ changes' = changes + 1
    /\ lastEvent' = event
    /\ UNCHANGED << phase, mousePosition, mouseEvent >>

\* a state update among the MaxChanges changes of the settings the model follows
Commit(count, lw, color, eff, ps0, event) ==
    CommitWithin(MaxChanges, count, lw, color, eff, ps0, event)

\* ------------------------------------------------------------- settings panel
\* Particle Count: setParticleCount(Number(e.target.value))
SetParticleCount ==
    \E v \in CountValues \ { particleCount } :
        Commit(v, lineWidth, particleColor, effects, particles, "particleCount")

\* Line Width: setLineWidth(Number(e.target.value))
SetLineWidth ==
    \E v \in LineWidthValues \ { lineWidth } :
        Commit(particleCount, v, particleColor, effects, particles, "lineWidth")

\* Particle Color: setParticleColor(e.target.value) and colorMode: 'solid'
PickParticleColor ==
    \E v \in ColorValues \ { particleColor } :
        Commit(particleCount, lineWidth, v, [ effects EXCEPT !.colorMode = "solid" ],
               particles, "particleColor")

\* Color Mode: setEffects, and for 'solid' the particles are recoloured at once
SelectColorMode ==
    \E v \in ColorModeValues \ { effects.colorMode } :
        Commit(particleCount, lineWidth, particleColor, [ effects EXCEPT !.colorMode = v ],
               IF v = "solid" THEN RecolorParticles(particles, particleColor) ELSE particles,
               "colorMode")

SetParticleShape ==
    \E v \in ShapeValues \ { effects.particleShape } :
        Commit(particleCount, lineWidth, particleColor, [ effects EXCEPT !.particleShape = v ],
               particles, "particleShape")

SetLineStyle ==
    \E v \in LineStyleValues \ { effects.lineStyle } :
        Commit(particleCount, lineWidth, particleColor, [ effects EXCEPT !.lineStyle = v ],
               particles, "lineStyle")

SetTrailLength ==
    \E v \in TrailLengthValues \ { effects.trailLength } :
        Commit(particleCount, lineWidth, particleColor, [ effects EXCEPT !.trailLength = v ],
               particles, "trailLength")

SetParticleSize ==
    \E v \in ParticleSizeValues \ { effects.particleSize } :
        Commit(particleCount, lineWidth, particleColor, [ effects EXCEPT !.particleSize = v ],
               particles, "particleSize")

SetConnectionDistance ==
    \E v \in ConnectionDistanceValues \ { effects.connectionDistance } :
        Commit(particleCount, lineWidth, particleColor,
               [ effects EXCEPT !.connectionDistance = v ], particles, "connectionDistance")

SetGlowEffect ==
    \E v \in BOOLEAN \ { effects.glowEffect } :
        Commit(particleCount, lineWidth, particleColor, [ effects EXCEPT !.glowEffect = v ],
               particles, "glowEffect")

\* Glow Intensity: the input is rendered only while effects.glowEffect is
\* true, so its change follows a change of Glow Effect; it may be one change
\* beyond MaxChanges
SetGlowIntensity ==
    /\ effects.glowEffect
    /\ \E v \in GlowIntensityValues \ { effects.glowIntensity } :
          CommitWithin(MaxChanges + 1, particleCount, lineWidth, particleColor,
                       [ effects EXCEPT !.glowIntensity = v ], particles, "glowIntensity")

SetMouseRepulsion ==
    \E v \in MouseRepulsionValues \ { effects.mouseRepulsion } :
        Commit(particleCount, lineWidth, particleColor, [ effects EXCEPT !.mouseRepulsion = v ],
               particles, "mouseRepulsion")

SetMouseForce ==
    \E v \in MouseForceValues \ { effects.mouseForce } :
        Commit(particleCount, lineWidth, particleColor, [ effects EXCEPT !.mouseForce = v ],
               particles, "mouseForce")

\* ------------------------------------------------------------- pointer
\* handleMouseMove that stores the position of the first event only: the
\* events that follow are dropped
handleMouseMoveKeepsFirst(e) ==
    /\ mouseEvent' = e
    /\ mousePosition' = IF mouseEvent = NoEvent
                        THEN [ x |-> Num(e[1] - RectLeft), y |-> Num(e[2] - RectTop) ]
                        ELSE mousePosition

\* handleMouseMove(e) for the event e = << clientX, clientY >>
handleMouseMove(e) ==
    /\ mouseEvent' = e
    /\ mousePosition' = [ x |-> Num(e[1] - RectLeft), y |-> Num(e[2] - RectTop) ]

\* a mousemove event on the canvas, one of the MaxChanges input events the
\* model follows: every attached handleMouseMove runs
MouseMove ==
    /\ listeners # { }
    /\ changes < MaxChanges
    /\ \E e \in PointerValues : handleMouseMove(e)
    /\ changes' = changes + 1
    /\ lastEvent' = "mousemove"
    /\ UNCHANGED << phase, particleCount, lineWidth, particleColor, effects, canvas,
                    shadowBlur, particles, animationFrameRef, pending, listeners, loopRuns,
                    frame, age >>

\* ------------------------------------------------------------- frame callback
\* draw, run for the frame request f, when the canvas or its 2d context is
\* missing: if (!canvas || !ctx) return
DrawNoContext(f) ==
    /\ pending' = pending \ { f }
    /\ frame' = [ NoFrame EXCEPT !.residue = Content(frame) ]
    /\ lastEvent' = "drawSkipped"
    /\ UNCHANGED << phase, particleCount, lineWidth, particleColor, effects, canvas,
                    shadowBlur, particles, mousePosition, mouseEvent, animationFrameRef, listeners,
                    loopRuns, age, changes >>

\* draw without requestAnimationFrame(draw) at its end
DrawFrameNoRequest(f) ==
    /\ phase = "mounted"
    /\ age < MaxAge
    /\ LET fade == [ alpha |-> TrailFade(f.env.effects),
                     shadowBlur |-> shadowBlur ]
           residue == FadeContent(Content(frame), fade.alpha)
           st0 == [ ps |-> particles, shadowBlur |-> shadowBlur,
                    paints |-> << >>, lines |-> << >> ]
       IN  IF Len(particles) = 0
           THEN /\ frame' = [ drawn |-> TRUE, env |-> f.env, fade |-> fade,
                              residue |-> residue, paints |-> << >>, lines |-> << >> ]
                /\ pending' = pending \ { f }
                /\ UNCHANGED << particles, shadowBlur, animationFrameRef >>
           ELSE \E st \in { DrawLoop(st0, 1, mousePosition, f.env, canvas) } :
                LET id == NewFrameId(animationFrameRef)
                IN  /\ particles' = st.ps
                    /\ shadowBlur' = st.shadowBlur
                    /\ frame' = [ drawn |-> TRUE, env |-> f.env, fade |-> fade,
                                  residue |-> residue,
                                  paints |-> st.paints, lines |-> st.lines ]
                    /\ animationFrameRef' = id
                    /\ pending' = pending \ { f }
    /\ age' = age + 1
    /\ lastEvent' = "draw"
    /\ UNCHANGED << phase, particleCount, lineWidth, particleColor, effects, canvas,
                    mousePosition, mouseEvent, listeners, loopRuns, changes >>

\* draw, run for the frame request f with the canvas and its context at hand
DrawFrame(f) ==
    /\ phase = "mounted"
    /\ age < MaxAge
    /\ LET fade == [ alpha |-> TrailFade(f.env.effects),
                     shadowBlur |-> shadowBlur ]
           residue == FadeContent(Content(frame), fade.alpha)
           st0 == [ ps |-> particles, shadowBlur |-> shadowBlur,
                    paints |-> << >>, lines |-> << >> ]
       IN  IF Len(particles) = 0
           THEN /\ frame' = [ drawn |-> TRUE, env |-> f.env, fade |-> fade,
                              residue |-> residue, paints |-> << >>, lines |-> << >> ]
                /\ pending' = pending \ { f }
                /\ UNCHANGED << particles, shadowBlur, animationFrameRef >>
           ELSE \E st \in { DrawLoop(st0, 1, mousePosition, f.env, canvas) } :
                LET id == NewFrameId(animationFrameRef)
                IN  /\ particles' = st.ps
                    /\ shadowBlur' = st.shadowBlur
                    /\ frame' = [ drawn |-> TRUE, env |-> f.env, fade |-> fade,
                                  residue |-> residue,
                                  paints |-> st.paints, lines |-> st.lines ]
                    /\ animationFrameRef' = id
                    /\ pending' = (pending \ { f }) \cup { [ f EXCEPT !.id = id ] }
    /\ age' = age + 1
    /\ lastEvent' = "draw"
    /\ UNCHANGED << phase, particleCount, lineWidth, particleColor, effects, canvas,
                    mousePosition, mouseEvent, listeners, loopRuns, changes >>

\* the browser runs a pending frame request
Draw == \E f \in pending : DrawFrame(f) \/ DrawNoContext(f)

\* ------------------------------------------------------------- teardown
\* the component unmounts: the cleanup of the loop effect runs
Unmount ==
    /\ phase = "mounted"
    /\ phase' = "unmounted"
    /\ pending' = CancelFrame(pending, animationFrameRef)
    /\ listeners' = RemoveListener(listeners, loopRuns)
    /\ lastEvent' = "unmount"
    /\ UNCHANGED << particleCount, lineWidth, particleColor, effects, canvas, shadowBlur,
                    particles, mousePosition, mouseEvent, animationFrameRef, loopRuns, frame, age,
                    changes >>

Next ==
    \/ Mount
    \/ SetParticleCount
    \/ SetLineWidth
    \/ PickParticleColor
    \/ SelectColorMode
    \/ SetParticleShape
    \/ SetLineStyle
    \/ SetTrailLength
    \/ SetParticleSize
    \/ SetConnectionDistance
    \/ SetGlowEffect
    \/ SetGlowIntensity
    \/ SetMouseRepulsion
    \/ SetMouseForce
    \/ MouseMove
    \/ Draw
    \/ Unmount

Spec == Init /\ [][Next]_vars

\* ------------------------------------------------------------- colour picker
\* Particle Color, with the picker delivering any colour of HexInputs
PickHexColor ==
    \E v \in HexInputs \ { particleColor } :
        Commit(particleCount, lineWidth, v, [ effects EXCEPT !.colorMode = "solid" ],
               particles, "particleColor")

ColorNext ==
    \/ Mount
    \/ PickHexColor

\* the component is mounted and base colours are picked
ColorSpec == Init /\ [][ColorNext]_vars

\* ------------------------------------------------------------- sanity
TypeOK ==
    /\ phase \in { "constructed", "mounted", "unmounted" }
    /\ particleCount \in CountValues
    /\ animationFrameRef \in Nat

\* every square root the simulation has taken so far was exact: velocities and
\* positions have small denominators
SmallDenominators ==
    age > 0 => \A i \in 1 .. Len(particles) :
        /\ particles[i].x[2] \in { 1, 2, 4, 5, 10, 20, 40, 80 }
        /\ particles[i].y[2] \in { 1, 2, 4, 5, 10, 20, 40, 80 }
        /\ particles[i].vx[2] \in { 1, 2, 4, 5, 10, 20, 40, 80 }
        /\ particles[i].vy[2] \in { 1, 2, 4, 5, 10, 20, 40, 80 }

\* ------------------------------------------------------------- claims
\* vx * vx + vy * vy
SpeedSq(p) == RAdd(RMul(p.vx, p.vx), RMul(p.vy, p.vy))

SameMotion(p, q) == p.x = q.x /\ p.y = q.y /\ p.vx = q.vx /\ p.vy = q.vy

\* C1: once the mount effects have run, every particle lies on the canvas:
\* 0 <= x <= canvas.width and 0 <= y <= canvas.height, in every reachable state.
C1_InBounds ==
    phase # "constructed" =>
        \A i \in 1 .. Len(particles) :
            /\ RLe(Zero, particles[i].x) /\ RLe(particles[i].x, canvas.width)
            /\ RLe(Zero, particles[i].y) /\ RLe(particles[i].y, canvas.height)

\* a frame has clamped a particle in the top right corner
C1_Witness ==
    /\ lastEvent = "draw"
    /\ \E i \in 1 .. Len(particles) :
          /\ particles[i].x = canvas.width
          /\ particles[i].y = Zero
          /\ RLt(particles[i].vx, Zero)
          /\ RLt(Zero, particles[i].vy)

\* C2 (as claimed): raising the particle count leaves the list with the new
\* count of entries, the particles it had keeping their position and velocity.
C2_CountIncreaseKeepsParticles ==
    [][ (lastEvent' = "particleCount" /\ particleCount' > particleCount) =>
            /\ Len(particles') = particleCount'
            /\ \A i \in 1 .. Len(particles) : SameMotion(particles'[i], particles[i]) ]_vars

\* C3 (as claimed): a frame reads the configuration in force when it runs:
\* every setting draw reads, the colour mode included, has its current value.
C3_FrameReadsCurrentConfiguration ==
    lastEvent = "draw" =>
        /\ frame.env.effects.colorMode = effects.colorMode
        /\ LoopDeps(particleCount, frame.env.lineWidth, frame.env.effects)
               = LoopDeps(particleCount, lineWidth, effects)

\* C4: while the component is mounted the particle list has exactly
\* particleCount entries.
C4_CountMatches ==
    phase = "mounted" => Len(particles) = particleCount

\* frames have run on a list built for a changed particle count
C4_Witness ==
    /\ lastEvent = "draw"
    /\ particleCount # InitialParticleCount
    /\ Len(particles) = particleCount

\* C5: a frame leaves every particle with speed at least baseSpeed, and a
\* particle whose velocity is (0, 0) when the floor is applied leaves the
\* floor with velocity (1, 0) (which the right wall may then reflect).
C5_SpeedFloor ==
    [][ lastEvent' = "draw" =>
            \A i \in 1 .. Len(particles) :
                /\ RLe(Num(baseSpeed * baseSpeed), SpeedSq(particles'[i]))
                /\ LET r == Repel(particles[i], mousePosition, frame'.env.effects)
                   IN  (r.vx = Zero /\ r.vy = Zero) =>
                           /\ particles'[i].vy = Zero
                           /\ particles'[i].vx =
                                  IF RLt(canvas.width, RAdd(r.x, One)) THEN Num(-1) ELSE One ]_vars

\* the first frame has floored the particle created at rest at (20, 150)
C5_Witness ==
    /\ lastEvent = "draw"
    /\ \E i \in 1 .. Len(particles) :
          /\ particles[i].x = Num(21)
          /\ particles[i].y = Num(150)
          /\ particles[i].vx = One
          /\ particles[i].vy = Zero

\* C6: teardown leaves no frame request and no listener behind: after the
\* unmount none is left, and after a restart of the loop the only ones left
\* are those of the loop effect's latest run.
C6_TeardownCancels ==
    /\ phase = "unmounted" => (pending = { } /\ listeners = { })
    /\ \A f \in pending : f.run = loopRuns
    /\ \A l \in listeners : l = loopRuns

\* the component was unmounted after the loop had been restarted and had drawn
C6_Witness ==
    /\ phase = "unmounted"
    /\ loopRuns = 2
    /\ age > 0

\* C7: at most one frame request is pending.
C7_OneFramePending == Cardinality(pending) <= 1

\* a restarted loop has drawn a frame and requested the next one
C7_Witness ==
    /\ lastEvent = "draw"
    /\ loopRuns = 2
    /\ Cardinality(pending) = 1

\* C8 (as claimed): a frame that cannot get the drawing context leaves the
\* next frame requested.
C8_SkippedFrameRetries ==
    (lastEvent = "drawSkipped" /\ phase = "mounted") => pending # { }

\* C9: a change of particle size, colour mode or base colour rewrites size
\* and colour of every particle and leaves position and velocity alone.
C9_RewriteOnChange ==
    [][ lastEvent' \in { "particleSize", "colorMode", "particleColor" } =>
            /\ Len(particles') = Len(particles)
            /\ \A i \in 1 .. Len(particles) :
                  /\ SameMotion(particles'[i], particles[i])
                  /\ particles'[i].size = effects'.particleSize
                  /\ effects'.colorMode = "solid" =>
                        /\ particles'[i].hue = HexToHsl(particleColor').hue
                        /\ particles'[i].saturation = HexToHsl(particleColor').saturation
                        /\ particles'[i].brightness = HexToHsl(particleColor').brightness
                  /\ effects'.colorMode = "rainbow" =>
                        /\ particles'[i].saturation = Num(100)
                        /\ particles'[i].brightness = Num(50)
                        /\ RLe(Zero, particles'[i].hue)
                        /\ RLt(particles'[i].hue, Num(360)) ]_vars

\* the base colour was changed to red on particles that had moved
C9_Witness ==
    /\ lastEvent = "particleColor"
    /\ particleColor = Red
    /\ age > 0
    /\ \A i \in 1 .. Len(particles) :
          particles[i].hue = Zero /\ particles[i].brightness = Num(50)

\* C10 (as claimed): a change of line width, line style, trail length, shape,
\* glow, connection distance, repulsion radius or force creates and discards
\* no particle and leaves every position and velocity unchanged.
C10_OtherSettingsKeepParticles ==
    [][ lastEvent' \in { "lineWidth", "lineStyle", "trailLength", "particleShape",
                         "glowEffect", "glowIntensity", "connectionDistance",
                         "mouseRepulsion", "mouseForce" } =>
            /\ Len(particles') = Len(particles)
            /\ \A i \in 1 .. Len(particles) : SameMotion(particles'[i], particles[i]) ]_vars

\* ------------------------------------------------------------- pointer repulsion
\* the first commit, with particles created on and around the pointer values
MountAtPointer ==
    /\ phase = "constructed"
    /\ \E seed \in PointerSeeds, hueSeed \in HueSeeds :
          RunEffects(particleCount, lineWidth, particleColor, effects, particles,
                     TRUE, TRUE, seed, hueSeed)
    /\ phase' = "mounted"
    /\ lastEvent' = "mount"
    /\ UNCHANGED << particleCount, lineWidth, particleColor, effects, mousePosition, mouseEvent,
                    changes >>

\* the first frame drawn on a particle list
FirstFrame == age = 0 /\ \E f \in pending : DrawFrame(f)

\* Mouse Repulsion Distance, the restarted loop creating its particles on and
\* around the pointer values; it may be one input event beyond MaxChanges
SetMouseRepulsionAtPointer ==
    /\ phase = "mounted"
    /\ changes < MaxChanges + 1
    /\ \E v \in MouseRepulsionValues \ { effects.mouseRepulsion } :
          LET eff == [ effects EXCEPT !.mouseRepulsion = v ]
              runLoop == LoopDeps(particleCount, lineWidth, eff)
                             # LoopDeps(particleCount, lineWidth, effects)
              runUpdate == UpdateDeps(eff, particleColor) # UpdateDeps(effects, particleColor)
          IN  /\ effects' = eff
              /\ \E seed \in PointerSeeds :
                     RunEffects(particleCount, lineWidth, particleColor, eff, particles,
                                runLoop, runUpdate, seed, 1)
    /\ changes' = changes + 1
    /\ lastEvent' = "mouseRepulsion"
    /\ UNCHANGED << phase, particleCount, lineWidth, particleColor, mousePosition, mouseEvent >>

\* Mouse Force, the restarted loop creating its particles on and around the
\* pointer values; it may be one input event beyond MaxChanges
SetMouseForceAtPointer ==
    /\ phase = "mounted"
    /\ changes < MaxChanges + 1
    /\ \E v \in MouseForceValues \ { effects.mouseForce } :
          LET eff == [ effects EXCEPT !.mouseForce = v ]
              runLoop == LoopDeps(particleCount, lineWidth, eff)
                             # LoopDeps(particleCount, lineWidth, effects)
              runUpdate == UpdateDeps(eff, particleColor) # UpdateDeps(effects, particleColor)
          IN  /\ effects' = eff
              /\ \E seed \in PointerSeeds :
                     RunEffects(particleCount, lineWidth, particleColor, eff, particles,
                                runLoop, runUpdate, seed, 1)
    /\ changes' = changes + 1
    /\ lastEvent' = "mouseForce"
    /\ UNCHANGED << phase, particleCount, lineWidth, particleColor, mousePosition, mouseEvent >>

RepelNext ==
    \/ MountAtPointer
    \/ MouseMove
    \/ SetMouseRepulsion
    \/ SetMouseRepulsionAtPointer
    \/ SetMouseForce
    \/ SetMouseForceAtPointer
    \/ FirstFrame

\* the pointer moves over freshly created particles and one frame is drawn
RepelSpec == Init /\ [][RepelNext]_vars

\* ------------------------------------------------------------- frame loop
\* the browser runs the pending frame request; canvasRef.current and its 2d
\* context are at hand
Tick == \E f \in pending : DrawFrame(f)

LoopNext ==
    \/ Mount
    \/ SetParticleCount
    \/ SetLineWidth
    \/ PickParticleColor
    \/ SelectColorMode
    \/ SetParticleShape
    \/ SetLineStyle
    \/ SetTrailLength
    \/ SetParticleSize
    \/ SetConnectionDistance
    \/ SetGlowEffect
    \/ SetGlowIntensity
    \/ SetMouseRepulsion
    \/ SetMouseForce
    \/ MouseMove
    \/ Tick
    \/ Unmount

\* a frame callback has run: the only step of the loop that counts a frame
FrameRuns ==
    /\ phase = "mounted"
    /\ pending # { }
    /\ age < MaxAge
    /\ age' = age + 1

\* The component with its canvas available at every frame callback.  The
\* browser runs a requested animation frame callback unless it is cancelled:
\* weak fairness of the steps of Tick, which are the steps of LoopNext that
\* satisfy FrameRuns and are possible exactly when a request is pending.
LoopSpec == Init /\ [][LoopNext]_vars /\ WF_age(FrameRuns)

\* ------------------------------------------------------------- glow
\* Glow Effect, clicked once more after an earlier change of the settings
ToggleGlowAgain ==
    /\ phase = "mounted"
    /\ changes > 0
    /\ changes < MaxChanges + 1
    /\ LET eff == [ effects EXCEPT !.glowEffect = ~effects.glowEffect ]
           runLoop == LoopDeps(particleCount, lineWidth, eff)
                          # LoopDeps(particleCount, lineWidth, effects)
           runUpdate == UpdateDeps(eff, particleColor) # UpdateDeps(effects, particleColor)
       IN  /\ effects' = eff
           /\ \E seed \in Seeds :
                  RunEffects(particleCount, lineWidth, particleColor, eff, particles,
                             runLoop, runUpdate, seed, 1)
    /\ changes' = changes + 1
    /\ lastEvent' = "glowEffect"
    /\ UNCHANGED << phase, particleCount, lineWidth, particleColor, mousePosition, mouseEvent >>

GlowNext ==
    \/ Mount
    \/ SetGlowEffect
    \/ SetGlowIntensity
    \/ ToggleGlowAgain
    \/ Draw

\* the glow is switched on and off and its intensity changed while frames run
GlowSpec == Init /\ [][GlowNext]_vars

\* ------------------------------------------------------------- non-interactive variant
\* src/components/Visualizer.tsx: the same component without the pointer.
\* createParticle, the particle update effect, getParticleColor, drawParticle
\* and the body of drawLine are the same text in both files; the operators
\* above stand for them here too.

\* useState({...}) of the variant: no mouseRepulsion, no mouseForce
StaticInitialEffects ==
    [ colorMode |-> "solid",
      particleShape |-> "circle",
      lineStyle |-> "solid",
      trailLength |-> << 1, 10 >>,
      particleSize |-> << 2, 1 >>,
      connectionDistance |-> << 200, 1 >>,
      glowEffect |-> FALSE,
      glowIntensity |-> << 1, 2 >> ]

\* Outcomes of the Math.random() calls of createParticle, as in Samples:
\*   1: (1.5, 90) with velocity (-1, 1/2): leaves through the left wall in the second frame
\*   2: (120, 2159) with velocity (0.3, 0.4): raised to (0.6, 0.8), leaves
\*      through the bottom wall in the second frame
\*   3: (3839, 1) with velocity (0.6, -0.8): leaves through the corner in the second frame
\*   4: (60, 60) at rest
StaticSamples == <<
    << << 1, 2560 >>, << 1, 24 >>, << 0, 1 >>, << 3, 4 >>, << 1, 36 >> >>,
    << << 1, 32 >>, << 2159, 2160 >>, << 13, 20 >>, << 7, 10 >>, << 719, 720 >> >>,
    << << 3839, 3840 >>, << 1, 2160 >>, << 4, 5 >>, << 1, 10 >>, << 1, 3 >> >>,
    << << 1, 64 >>, << 1, 36 >>, << 1, 2 >>, << 1, 2 >>, << 5, 6 >> >> >>

\* a batch is two rows of StaticSamples followed by the rows of Filler
StaticSeeds == 1 .. (Len(StaticSamples) \div 2)

\* the batches a re-run of the loop effect draws from after a change of the
\* settings
StaticRestartSeeds == { 1 }

StaticSample(seed, i) ==
    IF i > 2 THEN Filler(i - 2) ELSE StaticSamples[(seed - 1) * 2 + i]

\* Array.from({ length: particleCount }, createParticle)
StaticCreateParticles(count, seed, eff) ==
    [ i \in 1 .. count |-> createParticle(StaticSample(seed, i), eff) ]

\* draw of the variant: "Maintain constant base movement", const baseSpeed = 1
StaticFloor(p) ==
    LET angle == Atan2(p.vy, p.vx)
        speed == QSqrt(RAdd(RMul(p.vx, p.vx), RMul(p.vy, p.vy)))
    IN  IF RLt(speed, One)
        THEN [ p EXCEPT !.vx = RMul(Cos(angle), One), !.vy = RMul(Sin(angle), One) ]
        ELSE p

\* draw of the variant: "Update position"
StaticMove(p) == [ p EXCEPT !.x = RAdd(@, p.vx), !.y = RAdd(@, p.vy) ]

\* draw of the variant: "Bounce off walls", the tests on x
StaticWallsX(p, cv) ==
    IF RLt(p.x, Zero) THEN [ p EXCEPT !.x = Zero, !.vx = RAbs(@) ]
    ELSE IF RLt(cv.width, p.x) THEN [ p EXCEPT !.x = cv.width, !.vx = RNeg(RAbs(@)) ]
    ELSE p

\* draw of the variant: "Bounce off walls", the tests on y
StaticWallsY(p, cv) ==
    IF RLt(p.y, Zero) THEN [ p EXCEPT !.y = Zero, !.vy = RAbs(@) ]
    ELSE IF RLt(cv.height, p.y) THEN [ p EXCEPT !.y = cv.height, !.vy = RNeg(RAbs(@)) ]
    ELSE p

\* a simulation step that loses half of the velocity at a side wall
StaticAdvanceLossy(p, cv) ==
    LET q == StaticMove(StaticFloor(p))
        r == IF RLt(q.x, Zero) \/ RLt(cv.width, q.x)
             THEN [ StaticWallsX(q, cv) EXCEPT !.vx = RMul(@, << 1, 2 >>),
                                               !.vy = RMul(@, << 1, 2 >>) ]
             ELSE q
    IN  StaticWallsY(r, cv)

\* draw of the variant: the simulation step of one particle
StaticAdvance(p, cv) == StaticWallsY(StaticWallsX(StaticMove(StaticFloor(p)), cv), cv)

\* an outer loop that moves every particle before the first line is drawn
StaticDrawLoopMoveFirst(st, i, env, cv) ==
    LET moved == [ st EXCEPT !.ps = [ k \in 1 .. Len(st.ps) |->
                                        IF k >= i THEN StaticAdvance(st.ps[k], cv)
                                        ELSE st.ps[k] ] ]
        RECURSIVE Range(_, _, _)
        Range(s, lo, hi) ==
            IF lo > hi \/ lo > Len(s.ps) THEN s
            ELSE IF lo < hi
                 THEN Range(Range(s, lo, (lo + hi) \div 2), (lo + hi) \div 2 + 1, hi)
                 ELSE ConnectLoop(drawParticle(s, lo, env), lo, lo + 1, env)
    IN  Range(moved, i, Len(moved.ps))

\* draw of the variant: the outer loop, for (let i = 0; i < particles.length; i++),
\* run in order as in DrawLoop
StaticDrawLoop(st, i, env, cv) ==
    LET RECURSIVE Range(_, _, _)
        Range(s, lo, hi) ==
            IF lo > hi \/ lo > Len(s.ps) THEN s
            ELSE IF lo < hi
                 THEN Range(Range(s, lo, (lo + hi) \div 2), (lo + hi) \div 2 + 1, hi)
                 ELSE ConnectLoop(
                          drawParticle([ s EXCEPT !.ps[lo] = StaticAdvance(s.ps[lo], cv) ],
                                       lo, env),
                          lo, lo + 1, env)
    IN  Range(st, i, Len(st.ps))

StaticInit ==
    /\ phase = "constructed"
    /\ particleCount = InitialParticleCount
    /\ lineWidth = Num(2)
    /\ particleColor = InitialParticleColor
    /\ effects = StaticInitialEffects
    /\ canvas = [ width |-> Num(InnerWidth), height |-> Num(InnerHeight) ]
    /\ shadowBlur = Zero
    /\ particles = << >>
    /\ mousePosition = [ x |-> Zero, y |-> Zero ]
    /\ mouseEvent = NoEvent
    /\ animationFrameRef = 0
    /\ pending = { }
    /\ listeners = { }
    /\ loopRuns = 0
    /\ frame = NoFrame
    /\ age = 0
    /\ changes = 0
    /\ lastEvent = "construct"

\* the dependency list of the variant's loop effect
StaticLoopDeps(count, lw, eff) ==
    << count, eff.connectionDistance, eff.lineStyle, eff.trailLength, eff.particleShape,
       eff.glowEffect, eff.glowIntensity, lw >>

\* the variant's loop effect, after its cleanup when it has run before, then
\* the particle update effect when runUpdate
StaticRunEffects(count, lw, color, eff, ps0, runLoop, runUpdate, seed, hueSeed) ==
    LET pend1 == IF runLoop /\ loopRuns > 0 THEN CancelFrame(pending, animationFrameRef)
                 ELSE pending
        run == loopRuns + 1
        id == NewFrameId(animationFrameRef)
        ps1 == IF runLoop THEN StaticCreateParticles(count, seed, eff) ELSE ps0
    IN  /\ particles' = IF runUpdate THEN UpdateParticles(ps1, eff, color, hueSeed) ELSE ps1
        /\ IF runLoop
           THEN /\ canvas' = [ width |-> Num(InnerWidth), height |-> Num(InnerHeight) ]
                /\ shadowBlur' = Zero
                /\ pending' = pend1 \cup { [ id |-> id, run |-> run,
                                              env |-> [ effects |-> eff, lineWidth |-> lw ] ] }
                /\ animationFrameRef' = id
                /\ loopRuns' = run
                /\ frame' = NoFrame
                /\ age' = 0
           ELSE UNCHANGED << canvas, shadowBlur, pending, animationFrameRef, loopRuns,
                             frame, age >>

\* the first commit of the variant
StaticMount ==
    /\ phase = "constructed"
    /\ \E seed \in StaticSeeds, hueSeed \in HueSeeds :
          StaticRunEffects(particleCount, lineWidth, particleColor, effects, particles,
                           TRUE, TRUE, seed, hueSeed)
    /\ phase' = "mounted"
    /\ lastEvent' = "mount"
    /\ UNCHANGED << particleCount, lineWidth, particleColor, effects, mousePosition, mouseEvent,
                    listeners, changes >>

\* a state update of one of the variant's event handlers, the render it
\* causes and the effects whose dependencies changed
StaticCommitWithin(limit, count, lw, color, eff, ps0, event) ==
    /\ phase = "mounted"
    /\ changes < limit
    /\ particleCount' = count
    /\ lineWidth' = lw
    /\ particleColor' = color
    /\ effects' = eff
    /\ LET runLoop == StaticLoopDeps(count, lw, eff)
                          # StaticLoopDeps(particleCount, lineWidth, effects)
           runUpdate == UpdateDeps(eff, color) # UpdateDeps(effects, particleColor)
       IN  \E seed \in IF runLoop THEN StaticRestartSeeds ELSE { 1 },
              hueSeed \in IF runUpdate /\ eff.colorMode = "rainbow" THEN HueSeeds ELSE { 1 } :
               StaticRunEffects(count, lw, color, eff, ps0, runLoop, runUpdate, seed, hueSeed)
    /\ changes' = changes + 1
    /\ lastEvent' = event
    /\ UNCHANGED << phase, mousePosition, mouseEvent, listeners >>

StaticCommit(count, lw, color, eff, ps0, event) ==
    StaticCommitWithin(MaxChanges, count, lw, color, eff, ps0, event)

StaticSetParticleCount ==
    \E v \in CountValues \ { particleCount } :
        StaticCommit(v, lineWidth, particleColor, effects, particles, "particleCount")

StaticSetLineWidth ==
    \E v \in LineWidthValues \ { lineWidth } :
        StaticCommit(particleCount, v, particleColor, effects, particles, "lineWidth")

StaticPickParticleColor ==
    \E v \in ColorValues \ { particleColor } :
        StaticCommit(particleCount, lineWidth, v, [ effects EXCEPT !.colorMode = "solid" ],
                     particles, "particleColor")

StaticSelectColorMode ==
    \E v \in ColorModeValues \ { effects.colorMode } :
        StaticCommit(particleCount, lineWidth, particleColor,
                     [ effects EXCEPT !.colorMode = v ],
                     IF v = "solid" THEN RecolorParticles(particles, particleColor)
                     ELSE particles,
                     "colorMode")

StaticSetParticleShape ==
    \E v \in ShapeValues \ { effects.particleShape } :
        StaticCommit(particleCount, lineWidth, particleColor,
                     [ effects EXCEPT !.particleShape = v ], particles, "particleShape")

StaticSetLineStyle ==
    \E v \in LineStyleValues \ { effects.lineStyle } :
        StaticCommit(particleCount, lineWidth, particleColor,
                     [ effects EXCEPT !.lineStyle = v ], particles, "lineStyle")

StaticSetTrailLength ==
    \E v \in TrailLengthValues \ { effects.trailLength } :
        StaticCommit(particleCount, lineWidth, particleColor,
                     [ effects EXCEPT !.trailLength = v ], particles, "trailLength")

StaticSetParticleSize ==
    \E v \in ParticleSizeValues \ { effects.particleSize } :
        StaticCommit(particleCount, lineWidth, particleColor,
                     [ effects EXCEPT !.particleSize = v ], particles, "particleSize")

StaticSetConnectionDistance ==
    \E v \in ConnectionDistanceValues \ { effects.connectionDistance } :
        StaticCommit(particleCount, lineWidth, particleColor,
                     [ effects EXCEPT !.connectionDistance = v ], particles,
                     "connectionDistance")

StaticSetGlowEffect ==
    \E v \in BOOLEAN \ { effects.glowEffect } :
        StaticCommit(particleCount, lineWidth, particleColor,
                     [ effects EXCEPT !.glowEffect = v ], particles, "glowEffect")

\* Glow Intensity, rendered only while effects.glowEffect is true
StaticSetGlowIntensity ==
    /\ effects.glowEffect
    /\ \E v \in GlowIntensityValues \ { effects.glowIntensity } :
          StaticCommitWithin(MaxChanges + 1, particleCount, lineWidth, particleColor,
                             [ effects EXCEPT !.glowIntensity = v ], particles,
                             "glowIntensity")

\* draw of the variant, run for the frame request f with the canvas at hand
StaticDrawFrame(f) ==
    /\ phase = "mounted"
    /\ age < MaxAge
    /\ LET fade == [ alpha |-> TrailFade(f.env.effects),
                     shadowBlur |-> shadowBlur ]
           residue == FadeContent(Content(frame), fade.alpha)
           st0 == [ ps |-> particles, shadowBlur |-> shadowBlur,
                    paints |-> << >>, lines |-> << >> ]
       IN  IF Len(particles) = 0
           THEN /\ frame' = [ drawn |-> TRUE, env |-> f.env, fade |-> fade,
                              residue |-> residue, paints |-> << >>, lines |-> << >> ]
                /\ pending' = pending \ { f }
                /\ UNCHANGED << particles, shadowBlur, animationFrameRef >>
           ELSE \E st \in { StaticDrawLoop(st0, 1, f.env, canvas) } :
                LET id == NewFrameId(animationFrameRef)
                IN  /\ particles' = st.ps
                    /\ shadowBlur' = st.shadowBlur
                    /\ frame' = [ drawn |-> TRUE, env |-> f.env, fade |-> fade,
                                  residue |-> residue,
                                  paints |-> st.paints, lines |-> st.lines ]
                    /\ animationFrameRef' = id
                    /\ pending' = (pending \ { f }) \cup { [ f EXCEPT !.id = id ] }
    /\ age' = age + 1
    /\ lastEvent' = "draw"
    /\ UNCHANGED << phase, particleCount, lineWidth, particleColor, effects, canvas,
                    mousePosition, mouseEvent, listeners, loopRuns, changes >>

\* the browser runs a pending frame request of the variant; without canvas or
\* context draw returns at once, as in DrawNoContext
StaticDraw == \E f \in pending : StaticDrawFrame(f) \/ DrawNoContext(f)

\* the variant unmounts: the cleanup of its loop effect runs
StaticUnmount ==
    /\ phase = "mounted"
    /\ phase' = "unmounted"
    /\ pending' = CancelFrame(pending, animationFrameRef)
    /\ lastEvent' = "unmount"
    /\ UNCHANGED << particleCount, lineWidth, particleColor, effects, canvas, shadowBlur,
                    particles, mousePosition, mouseEvent, animationFrameRef, listeners, loopRuns,
                    frame, age, changes >>

StaticNext ==
    \/ StaticMount
    \/ StaticSetParticleCount
    \/ StaticSetLineWidth
    \/ StaticPickParticleColor
    \/ StaticSelectColorMode
    \/ StaticSetParticleShape
    \/ StaticSetLineStyle
    \/ StaticSetTrailLength
    \/ StaticSetParticleSize
    \/ StaticSetConnectionDistance
    \/ StaticSetGlowEffect
    \/ StaticSetGlowIntensity
    \/ StaticDraw
    \/ StaticUnmount

StaticSpec == StaticInit /\ [][StaticNext]_vars

\* ------------------------------------------------------------- side by side
\* Mouse Repulsion, moved after an earlier change of the settings
SetMouseRepulsionAgain ==
    /\ phase = "mounted"
    /\ changes > 0
    /\ changes < MaxChanges + 1
    /\ \E v \in MouseRepulsionValues \ { effects.mouseRepulsion } :
          LET eff == [ effects EXCEPT !.mouseRepulsion = v ]
              runLoop == LoopDeps(particleCount, lineWidth, eff)
                             # LoopDeps(particleCount, lineWidth, effects)
              runUpdate == UpdateDeps(eff, particleColor) # UpdateDeps(effects, particleColor)
          IN  /\ effects' = eff
              /\ \E seed \in Seeds :
                     RunEffects(particleCount, lineWidth, particleColor, eff, particles,
                                runLoop, runUpdate, seed, 1)
    /\ changes' = changes + 1
    /\ lastEvent' = "mouseRepulsion"
    /\ UNCHANGED << phase, particleCount, lineWidth, particleColor, mousePosition, mouseEvent >>

\* (clientX, clientY) of the mousemove events that follow another one
NextPointerValues == PointerValues \cup { << 99, 150 >> }

\* one more mousemove event on the canvas, delivered right after another one:
\* no frame has run between the two
MouseMoveAgain ==
    /\ listeners # { }
    /\ lastEvent = "mousemove"
    /\ changes < MaxChanges + 1
    /\ \E e \in NextPointerValues : handleMouseMove(e)
    /\ changes' = changes + 1
    /\ lastEvent' = "mousemove"
    /\ UNCHANGED << phase, particleCount, lineWidth, particleColor, effects, canvas,
                    shadowBlur, particles, animationFrameRef, pending, listeners, loopRuns,
                    frame, age >>

PairNext ==
    \/ Mount
    \/ MouseMove
    \/ MouseMoveAgain
    \/ SelectColorMode
    \/ SetConnectionDistance
    \/ SetMouseRepulsion
    \/ SetMouseRepulsionAgain
    \/ Tick

\* the interactive component with the pointer moving, twice in a row too, and
\* the repulsion radius switched between 80 and 0, in both colour modes
PairSpec == Init /\ [][PairNext]_vars

\* C11: the particles carry the HSL conversion of the base colour, which
\* depends on the hex string alone: #ffffff gives (0, 0, 100), #ff0000 gives
\* (0, 100, 50), #000000 gives saturation 0 and lightness 0, and for every
\* colour the hue is in [0, 360) and saturation and lightness are in [0, 100].
C11_HexToHslRange ==
    (phase = "mounted" /\ effects.colorMode = "solid") =>
        \A i \in 1 .. Len(particles) :
            LET p == particles[i]
            IN  /\ RLe(Zero, p.hue) /\ RLt(p.hue, Num(360))
                /\ RLe(Zero, p.saturation) /\ RLe(p.saturation, Num(100))
                /\ RLe(Zero, p.brightness) /\ RLe(p.brightness, Num(100))
                /\ particleColor = White =>
                       (p.hue = Zero /\ p.saturation = Zero /\ p.brightness = Num(100))
                /\ particleColor = Red =>
                       (p.hue = Zero /\ p.saturation = Num(100) /\ p.brightness = Num(50))
                /\ particleColor = Black => (p.saturation = Zero /\ p.brightness = Zero)
                /\ \A j \in 1 .. Len(particles) :
                       /\ particles[j].hue = p.hue
                       /\ particles[j].saturation = p.saturation
                       /\ particles[j].brightness = p.brightness

\* the colour #ff0033, between magenta and red, was picked: hue 348
C11_Witness ==
    /\ lastEvent = "particleColor"
    /\ particleColor = << 15, 15, 0, 0, 3, 3 >>
    /\ \A i \in 1 .. Len(particles) :
          particles[i].hue = Num(348) /\ particles[i].saturation = Num(100)

\* distances between two particles on which the opacity is compared
DistanceInputs ==
    { Zero, Q(1, 10), Num(1), Num(25), Q(499, 10), Num(50), Num(100), Q(1999, 10),
      Num(200), Num(300) }

\* C12: the opacity of a connection line falls strictly as the distance grows
\* and is exactly 0 at distance = connectionDistance; every line a frame has
\* drawn was drawn for a distance below connectionDistance and was given an
\* opacity in (0, 0.2].
C12_OpacityFade ==
    lastEvent = "draw" =>
        LET eff == frame.env.effects
        IN  /\ Opacity(eff.connectionDistance, eff) = Zero
            /\ \A d1 \in DistanceInputs, d2 \in DistanceInputs :
                   RLt(d1, d2) => RLt(Opacity(d2, eff), Opacity(d1, eff))
            /\ \A k \in 1 .. Len(frame.lines) :
                   LET l == frame.lines[k]
                       d == Distance(RSub(l.x1, l.x2), RSub(l.y1, l.y2))
                   IN  /\ RLt(d, eff.connectionDistance)
                       /\ l.opacity = Opacity(d, eff)
                       /\ RLt(Zero, l.opacity) /\ RLe(l.opacity, Q(1, 5))
                       /\ l.strokeStyle[1] = "rgba" => l.strokeStyle[5] = l.opacity

\* a frame has drawn a faint line (opacity below 0.1) between two particles
\* whose distance is an irrational root
C12_Witness ==
    /\ lastEvent = "draw"
    /\ \E k \in 1 .. Len(frame.lines) :
          /\ IsSurd(frame.lines[k].opacity)
          /\ RLt(Zero, frame.lines[k].opacity)
          /\ RLt(frame.lines[k].opacity, Q(1, 10))

\* C13: a frame changes the velocity of a particle within the repulsion radius
\* of the pointer (d < mouseRepulsion) by a vector that points from the pointer
\* to the particle and has length ((mouseRepulsion - d) / mouseRepulsion) *
\* mouseForce; with d = 0 the change is (mouseForce, 0).  The change is read
\* off the frame where neither the speed floor nor a wall has altered the
\* velocity: the speed is above baseSpeed and the position moved by the velocity.
C13_RepulsionAway ==
    [][ lastEvent' = "draw" =>
            \A i \in 1 .. Len(particles) :
                LET p == particles[i]
                    q == particles'[i]
                    eff == frame'.env.effects
                    dx == RSub(p.x, mousePosition.x)
                    dy == RSub(p.y, mousePosition.y)
                    d == Distance(dx, dy)
                    dvx == RSub(q.vx, p.vx)
                    dvy == RSub(q.vy, p.vy)
                    m == RMul(RDiv(RSub(eff.mouseRepulsion, d), eff.mouseRepulsion),
                              eff.mouseForce)
                IN  ( /\ RLt(d, eff.mouseRepulsion)
                      /\ RLt(Num(baseSpeed * baseSpeed), SpeedSq(q))
                      /\ q.x = RAdd(p.x, q.vx)
                      /\ q.y = RAdd(p.y, q.vy) ) =>
                        /\ RAdd(RMul(dvx, dvx), RMul(dvy, dvy)) = RMul(m, m)
                        /\ d # Zero =>
                               /\ RMul(dvx, dy) = RMul(dvy, dx)
                               /\ RLt(Zero, RAdd(RMul(dvx, dx), RMul(dvy, dy)))
                        /\ d = Zero => (dvx = m /\ dvy = Zero /\ m = eff.mouseForce) ]_vars

\* a frame has pushed the particle created at rest on the pointer at (160, 120)
\* along +x with the full force 3
C13_Witness ==
    /\ lastEvent = "draw"
    /\ mousePosition = [ x |-> Num(160), y |-> Num(120) ]
    /\ \E i \in 1 .. Len(particles) :
          /\ particles[i].x = Num(163)
          /\ particles[i].y = Num(120)
          /\ particles[i].vx = Num(3)
          /\ particles[i].vy = Zero

\* C14: with trailLength = 0 the black fill of a frame is opaque and covers
\* the whole canvas: nothing of the earlier frames is left, and the canvas
\* shows the shapes and lines of this frame alone.
C14_NoResidualTrail ==
    (lastEvent = "draw" /\ frame.env.effects.trailLength = Zero) =>
        /\ frame.fade.alpha = One
        /\ frame.residue = << >>
        /\ Content(frame) = << [ paints |-> frame.paints, lines |-> frame.lines,
                                 visibility |-> One ] >>

\* with trailLength = 0 a second frame was drawn over the first one
C14_Witness ==
    /\ lastEvent = "draw"
    /\ age = 2
    /\ frame.env.effects.trailLength = Zero
    /\ Len(frame.paints) = particleCount
    /\ frame.residue = << >>

\* C15 (as claimed): in solid mode every particle carries the HSL conversion
\* of the base colour, whenever it was created.
C15_SolidParticlesCarryBaseColor ==
    (phase = "mounted" /\ effects.colorMode = "solid") =>
        \A i \in 1 .. Len(particles) :
            /\ particles[i].hue = HexToHsl(particleColor).hue
            /\ particles[i].saturation = HexToHsl(particleColor).saturation
            /\ particles[i].brightness = HexToHsl(particleColor).brightness

\* C16 (as claimed): a frame advances every particle before it paints: the
\* lines it draws join the positions the particles have after the frame, and a
\* pair is joined exactly when those positions are closer than connectionDistance.
C16_LinesUseAdvancedPositions ==
    lastEvent = "draw" =>
        /\ \A k \in 1 .. Len(frame.lines) :
               LET l == frame.lines[k]
               IN  /\ l.x1 = particles[l.from].x /\ l.y1 = particles[l.from].y
                   /\ l.x2 = particles[l.to].x /\ l.y2 = particles[l.to].y
        /\ \A i \in 1 .. Len(particles), j \in 1 .. Len(particles) :
               i < j =>
                   ( RLt(Distance(RSub(particles[i].x, particles[j].x),
                                  RSub(particles[i].y, particles[j].y)),
                         frame.env.effects.connectionDistance)
                     <=> \E k \in 1 .. Len(frame.lines) :
                             frame.lines[k].from = i /\ frame.lines[k].to = j )

\* the lines of the frame fr that start or end at particle i
LinesAt(fr, i) ==
    Cardinality({ k \in 1 .. Len(fr.lines) : fr.lines[k].from = i \/ fr.lines[k].to = i })

\* C17 (as claimed): in rainbow mode a frame advances the hue of a particle by
\* 1 modulo 360 with solid or dashed lines, and by 1 plus the number of lines
\* drawn to or from it with gradient lines; in solid mode a frame leaves hue,
\* saturation and brightness alone; the hue stays in [0, 360).
C17_HueAdvance ==
    [][ lastEvent' = "draw" =>
            \A i \in 1 .. Len(particles) :
                LET p == particles[i]
                    q == particles'[i]
                    calls == IF effects.lineStyle = "gradient" THEN 1 + LinesAt(frame', i)
                             ELSE 1
                IN  /\ RLe(Zero, q.hue) /\ RLt(q.hue, Num(360))
                    /\ effects.colorMode = "rainbow" =>
                           q.hue = QMod(RAdd(p.hue, Num(calls)), 360)
                    /\ effects.colorMode = "solid" =>
                           /\ q.hue = p.hue
                           /\ q.saturation = p.saturation
                           /\ q.brightness = p.brightness ]_vars

\* the lines of the frame fr drawn from particle i to particle j
LinesBetween(fr, i, j) ==
    { k \in 1 .. Len(fr.lines) : fr.lines[k].from = i /\ fr.lines[k].to = j }

\* C18 (as claimed): every pair of distinct particles is tested once and every
\* pair closer than connectionDistance gets exactly one line of the configured
\* width, stroked at opacity 0.2 * (1 - distance / connectionDistance) whatever
\* the line style; the opacity is 1 at distance 0.
C18_LinesFullyOpaqueAtZero ==
    lastEvent = "draw" =>
        /\ Opacity(Zero, frame.env.effects) = One
        /\ \A k \in 1 .. Len(frame.lines) :
               LET l == frame.lines[k]
               IN  /\ l.from < l.to
                   /\ Cardinality(LinesBetween(frame, l.from, l.to)) = 1
                   /\ l.lineWidth = lineWidth
                   /\ l.strokeStyle = << "rgba", 255, 255, 255, l.opacity >>

\* C18 (amended): a frame tests every pair of distinct particles once, in the
\* order of the list and with the distance the connection loop reads: from the
\* advanced position of the earlier particle to the position the later one
\* has before it is advanced.  A pair gets exactly one line when that
\* distance is below connectionDistance and none otherwise (every line joins
\* a pair whose distance is below connectionDistance); every line has the
\* configured width; solid and dashed lines are white at opacity
\* 0.2 * (1 - distance / connectionDistance), dashed ones with the dash
\* pattern (5, 5), and gradient lines are stroked with the gradient of the two
\* resolved colours; the opacity is 0.2 at distance 0.
C18_LinesPerPair ==
    [][ lastEvent' = "draw" =>
            \A after \in { particles' }, fr \in { frame' } :
                LET eff == fr.env.effects
                IN  /\ Opacity(Zero, eff) = Q(1, 5)
                    /\ \A k \in 1 .. Len(fr.lines) :
                           LET l == fr.lines[k]
                           IN  /\ l.from \in 1 .. Len(particles)
                               /\ l.to \in 1 .. Len(particles)
                               /\ l.from < l.to
                               /\ RLt(Distance(RSub(after[l.from].x, particles[l.to].x),
                                               RSub(after[l.from].y, particles[l.to].y)),
                                      eff.connectionDistance)
                    /\ \A i \in 1 .. Len(particles) :
                           \A j \in (i + 1) .. Len(particles) :
                               LET d == Distance(RSub(after[i].x, particles[j].x),
                                                 RSub(after[i].y, particles[j].y))
                               IN  RLt(d, eff.connectionDistance) =>
                                       /\ Cardinality(LinesBetween(fr, i, j)) = 1
                                       /\ \A k \in LinesBetween(fr, i, j) :
                                              LET l == fr.lines[k]
                                              IN  /\ l.lineWidth = lineWidth
                                                  /\ l.opacity = Opacity(d, eff)
                                                  /\ effects.lineStyle = "gradient" =>
                                                         l.strokeStyle[1] = "gradient"
                                                  /\ effects.lineStyle # "gradient" =>
                                                         l.strokeStyle =
                                                             << "rgba", 255, 255, 255,
                                                                RMul(Q(1, 5), RSub(One,
                                                                    RDiv(d, eff.connectionDistance))) >>
                                                  /\ l.lineDash =
                                                         IF effects.lineStyle = "dashed"
                                                         THEN << 5, 5 >> ELSE << >> ]_vars

\* a frame of 100 particles has drawn gradient lines of width 2, the first of
\* them from the first particle to the second, and fewer lines than particles
C18_Witness ==
    /\ lastEvent = "draw"
    /\ effects.lineStyle = "gradient"
    /\ Len(particles) = InitialParticleCount
    /\ Len(frame.lines) > 1
    /\ Len(frame.lines) < Len(particles)
    /\ frame.lines[1].from = 1 /\ frame.lines[1].to = 2
    /\ frame.lines[1].strokeStyle[1] = "gradient"
    /\ frame.lines[1].lineWidth = Num(2)

\* C19: the reflection at the walls keeps |vx| and |vy|; a particle that has
\* moved past x = 0 (y = 0) ends the frame on the wall with vx >= 0 (vy >= 0),
\* one that has moved past x = width (y = height) ends it on the wall with
\* vx <= 0 (vy <= 0), the two axes independently, so a particle that leaves
\* through a corner is clamped and reflected on both; a particle that stays
\* inside keeps the position and velocity of the step.
C19_ElasticReflection ==
    [][ lastEvent' = "draw" =>
            \A after \in { particles' }, fr \in { frame' } :
                \A i \in 1 .. Len(particles) :
                    LET r == SpeedFloor(Repel(particles[i], mousePosition, fr.env.effects))
                        tx == RAdd(r.x, r.vx)
                        ty == RAdd(r.y, r.vy)
                        q == after[i]
                    IN  /\ RAbs(q.vx) = RAbs(r.vx)
                        /\ RAbs(q.vy) = RAbs(r.vy)
                        /\ RLt(tx, Zero) => (q.x = Zero /\ RLe(Zero, q.vx))
                        /\ RLt(canvas.width, tx) => (q.x = canvas.width /\ RLe(q.vx, Zero))
                        /\ (RLe(Zero, tx) /\ RLe(tx, canvas.width)) => (q.x = tx /\ q.vx = r.vx)
                        /\ RLt(ty, Zero) => (q.y = Zero /\ RLe(Zero, q.vy))
                        /\ RLt(canvas.height, ty) => (q.y = canvas.height /\ RLe(q.vy, Zero))
                        /\ (RLe(Zero, ty) /\ RLe(ty, canvas.height)) => (q.y = ty /\ q.vy = r.vy)
      ]_vars

\* a frame has reflected the particle created in the bottom left corner with
\* velocity (-1, 1/2) on both axes
C19_Witness ==
    /\ lastEvent = "draw"
    /\ \E i \in 1 .. Len(particles) :
          /\ particles[i].x = Zero
          /\ particles[i].y = canvas.height
          /\ particles[i].vx = One
          /\ particles[i].vy = RNeg(Q(1, 2))

\* the pointer position a frame has to use: the coordinates of the most
\* recent mousemove event relative to the canvas, (0, 0) when there was none
LatestPointer(ev) ==
    IF ev = NoEvent THEN [ x |-> Zero, y |-> Zero ]
    ELSE [ x |-> Num(ev[1] - RectLeft), y |-> Num(ev[2] - RectTop) ]

\* the velocity change a frame has to give the particle p for the pointer
\* at m: none at distance mouseRepulsion or beyond, else a vector of length
\* ((mouseRepulsion - d) / mouseRepulsion) * mouseForce that points from m to
\* p, along +x when p is on m
PointerPush(p, m, eff) ==
    LET dx == RSub(p.x, m.x)
        dy == RSub(p.y, m.y)
        d == QSqrt(RAdd(RMul(dx, dx), RMul(dy, dy)))
        len == RMul(RDiv(RSub(eff.mouseRepulsion, d), eff.mouseRepulsion), eff.mouseForce)
    IN  IF ~RLt(d, eff.mouseRepulsion) THEN << Zero, Zero >>
        ELSE IF d = Zero THEN << len, Zero >>
        ELSE << RMul(len, RDiv(dx, d)), RMul(len, RDiv(dy, d)) >>

\* C20: the stored pointer position is (0, 0) until the first mousemove event
\* and from then on the coordinates, relative to the canvas, of the most
\* recent one: an event overwrites what an earlier event stored, whether or
\* not a frame has run in between, and nothing else writes the position,
\* neither a frame nor a restart of the loop.  A frame moves every particle
\* as the most recent event demands: the particle takes the pointer-free step
\* (speed floor, move, walls) from its velocity changed by the push away from
\* that event's position, the same position for all particles of the frame.
C20_PointerLatestValue ==
    /\ mousePosition = [ x |-> Zero, y |-> Zero ]
    /\ [][ /\ mousePosition' # mousePosition => lastEvent' = "mousemove"
           /\ mouseEvent' # mouseEvent => lastEvent' = "mousemove"
           /\ mousePosition' = LatestPointer(mouseEvent')
           /\ lastEvent' = "draw" =>
                  \A after \in { particles' }, fr \in { frame' } :
                      \A i \in 1 .. Len(particles) :
                          LET p == particles[i]
                              push == PointerPush(p, LatestPointer(mouseEvent), fr.env.effects)
                          IN  SameMotion(after[i],
                                         StaticAdvance([ p EXCEPT !.vx = RAdd(@, push[1]),
                                                                  !.vy = RAdd(@, push[2]) ],
                                                       canvas))
         ]_vars

\* two mousemove events, to (160, 120) and then to (99, 150), came in before
\* the first frame and no setting was changed: the frame has pushed the
\* particle created at rest at (20, 150), 79 from the second position and
\* out of reach of the first and of (0, 0), away from the second position
C20_Witness ==
    /\ lastEvent = "draw"
    /\ age = 1
    /\ changes = 2
    /\ effects = InitialEffects
    /\ mouseEvent = << 99, 150 >>
    /\ \E i \in 1 .. Len(particles) :
          /\ particles[i].x = Num(19)
          /\ particles[i].y = Num(150)
          /\ particles[i].vx = RNeg(One)
          /\ particles[i].vy = Zero

\* C21: a frame leaves alone the velocity of a particle whose distance to the
\* pointer is at least mouseRepulsion: the particle takes the step it would
\* take without a pointer.  With mouseRepulsion = 0 this is every particle,
\* one on the pointer included, and all its numbers are proper (no division
\* by zero was taken).
C21_NoRepulsionOutsideRadius ==
    [][ lastEvent' = "draw" =>
            \A i \in 1 .. Len(particles) :
                LET p == particles[i]
                    q == particles'[i]
                    eff == frame'.env.effects
                    d == Distance(RSub(p.x, mousePosition.x), RSub(p.y, mousePosition.y))
                    free == BounceY(BounceX(Integrate(SpeedFloor(p)), canvas.width),
                                    canvas.height)
                IN  /\ RLe(eff.mouseRepulsion, d) => SameMotion(q, free)
                    /\ eff.mouseRepulsion = Zero =>
                           /\ SameMotion(q, free)
                           /\ q.x[2] > 0 /\ q.y[2] > 0 /\ q.vx[2] > 0 /\ q.vy[2] > 0
                    /\ (RLe(eff.mouseRepulsion, d) /\ RLe(One, SpeedSq(p))) =>
                           (RAbs(q.vx) = RAbs(p.vx) /\ RAbs(q.vy) = RAbs(p.vy)) ]_vars

\* with mouseRepulsion = 0 a frame has run over a particle created at rest on
\* the pointer at (0, 0): only the speed floor has moved it
C21_Witness ==
    /\ lastEvent = "draw"
    /\ effects.mouseRepulsion = Zero
    /\ mousePosition = [ x |-> Zero, y |-> Zero ]
    /\ \E i \in 1 .. Len(particles) :
          /\ particles[i].x = One
          /\ particles[i].y = Zero
          /\ particles[i].vx = One
          /\ particles[i].vy = Zero

\* C22: the blur radius of the context is glowIntensity * 20 only while a
\* particle is filled with the glow switched on; it is 0 between frames, when
\* the trail fade is filled and when a connection line is stroked, also in
\* the frames that follow switching the glow off.
C22_GlowOnlyOnFill ==
    /\ shadowBlur = Zero
    /\ lastEvent = "draw" =>
           /\ frame.fade.shadowBlur = Zero
           /\ \A k \in 1 .. Len(frame.lines) : frame.lines[k].shadowBlur = Zero
           /\ \A k \in 1 .. Len(frame.paints) :
                  frame.paints[k].shadowBlur =
                      IF frame.env.effects.glowEffect
                      THEN RMul(frame.env.effects.glowIntensity, Num(20))
                      ELSE Zero

\* the glow was switched on and off again, and the second frame after that
\* has drawn particles and a line
C22_Witness ==
    /\ lastEvent = "draw"
    /\ loopRuns = 3
    /\ age = 2
    /\ ~effects.glowEffect
    /\ Len(frame.paints) = particleCount
    /\ Len(frame.lines) > 0

\* C23: with the canvas available at every callback and a non-empty particle
\* list, the mounted component has exactly one frame request pending at all
\* times: a frame callback replaces the request it ran for by one new request,
\* a restart of the loop effect leaves one request of the new loop; so the
\* loop goes on ticking (up to the frames the model follows) unless the
\* component is unmounted, and after the unmount no request is pending and
\* nothing happens any more.
C23_LoopAlwaysScheduled ==
    /\ [](phase = "mounted" => Len(particles) > 0 /\ Cardinality(pending) = 1)
    /\ [][ lastEvent' = "draw" =>
              /\ Cardinality(pending) = 1
              /\ Cardinality(pending') = 1
              /\ \A f \in pending, g \in pending' :
                     g.id # f.id /\ g.run = f.run /\ g.env = f.env /\ g.id = animationFrameRef' ]_vars
    /\ [][ loopRuns' # loopRuns =>
              /\ Cardinality(pending') = 1
              /\ \A g \in pending' : g.run = loopRuns' /\ g.id = animationFrameRef' ]_vars
    /\ (phase = "mounted" /\ age < MaxAge) ~> (age = MaxAge \/ phase = "unmounted")
    /\ [](phase = "unmounted" => pending = { })
    /\ [][ phase # "unmounted" /\ (phase' = "unmounted" => pending' = { }) ]_vars

\* the loop was restarted by a change of the settings and has ticked twice
\* since, with one request pending for the next tick
C23_Witness ==
    /\ phase = "mounted"
    /\ lastEvent = "draw"
    /\ loopRuns = 2
    /\ age = 2
    /\ \E f \in pending : pending = { f } /\ f.run = 2

\* the steps that count a frame are the steps of Tick, and Tick can run
\* whenever FrameRuns can
FrameRunsIsTick ==
    [][ (FrameRuns <=> lastEvent' = "draw")
        /\ (lastEvent' = "draw" => \E f \in pending : f.run = loopRuns) ]_vars

\* C24: in the non-interactive variant every particle has speed at least 1
\* once a frame of the current loop has been drawn, and from then on no frame
\* and no change of the settings that leaves the loop running (colour mode,
\* base colour, particle size) changes vx^2 + vy^2 of any particle.
C24_StaticSpeedConstant ==
    /\ [](age > 0 => \A i \in 1 .. Len(particles) : RLe(One, SpeedSq(particles[i])))
    /\ [][ age > 0 /\ loopRuns' = loopRuns =>
              /\ Len(particles') = Len(particles)
              /\ \A i \in 1 .. Len(particles) :
                     SpeedSq(particles'[i]) = SpeedSq(particles[i]) ]_vars

\* the second frame of a loop has reflected one particle at the left wall and
\* another, which the first frame had raised from speed 1/2 to speed 1, at the
\* bottom wall
C24_Witness ==
    /\ lastEvent = "draw"
    /\ age = 2
    /\ \E i, j \in 1 .. Len(particles) :
          /\ particles[i].y = canvas.height
          /\ particles[i].vx = << 3, 5 >>
          /\ particles[i].vy = << -4, 5 >>
          /\ particles[j].x = Zero
          /\ particles[j].vx = One
          /\ particles[j].vy = << 1, 2 >>

\* the configuration of a frame's closure, restricted to the settings the
\* non-interactive variant has
StaticConfig(env) ==
    [ effects |-> [ k \in DOMAIN StaticInitialEffects |-> env.effects[k] ],
      lineWidth |-> env.lineWidth ]

\* the lines of a frame as a set
LineSet(lines) == { lines[k] : k \in 1 .. Len(lines) }

\* C25: whenever the interactive variant draws a frame with repulsion radius 0
\* or with the pointer farther than the radius from every particle, the draw
\* loop of the non-interactive variant, run on the same particle list with
\* the same settings and canvas, yields the same positions, velocities and
\* hues and the same set of lines.
C25_VariantsAgree ==
    [][ lastEvent' = "draw" =>
          \A f \in pending :
              LET eff == f.env.effects
                  Far(p) == RLt(eff.mouseRepulsion,
                                Distance(RSub(p.x, mousePosition.x),
                                         RSub(p.y, mousePosition.y)))
                  st == StaticDrawLoop([ ps |-> particles, shadowBlur |-> shadowBlur,
                                         paints |-> << >>, lines |-> << >> ],
                                       1, StaticConfig(f.env), canvas)
              IN  (eff.mouseRepulsion = Zero
                     \/ \A i \in 1 .. Len(particles) : Far(particles[i])) =>
                      /\ Len(st.ps) = Len(particles')
                      /\ \A i \in 1 .. Len(particles') :
                             /\ SameMotion(st.ps[i], particles'[i])
                             /\ st.ps[i].hue = particles'[i].hue
                      /\ LineSet(st.lines) = LineSet(frame'.lines) ]_vars

\* a frame was drawn with repulsion radius 0 and the pointer at (160, 120):
\* the particle created 79 away from the pointer, at (112.6, 56.8), has
\* taken the step of its own velocity towards it, and lines were drawn
C25_Witness ==
    /\ lastEvent = "draw"
    /\ frame.env.effects.mouseRepulsion = Zero
    /\ mousePosition = [ x |-> Num(160), y |-> Num(120) ]
    /\ Len(frame.lines) > 0
    /\ \E i \in 1 .. Len(particles) :
          /\ particles[i].x = Q(566, 5)
          /\ particles[i].y = Q(288, 5)
          /\ particles[i].vx = Q(3, 5)
          /\ particles[i].vy = Q(4, 5)

====
